---- MODULE Spec2Model ----
(***************************************************************************)
(* A state machine of the Guess-It web application (src/app): one browser  *)
(* session talking to one server process, the process-wide caches, the     *)
(* background score-write queue and the leaderboard store.                 *)
(*                                                                         *)
(* The Flask session is a dictionary: it is modelled as a function whose   *)
(* DOMAIN is the set of keys present, so that `k in session`,              *)
(* session.get(k, d), session.pop(k, None) and session.setdefault(k, v)    *)
(* are what they are in the code.                                          *)
(*                                                                         *)
(* Requests of one session are handled one after the other.  The rate      *)
(* limiter (flask_limiter) is outside the model: every request modelled    *)
(* here is one that the limiter let through.                               *)
(***************************************************************************)
EXTENDS Integers, Sequences, FiniteSets, TLC

(***************************************************************************)
(* Bounds of the exploration.                                              *)
(***************************************************************************)
\* outcomes (save_score_async calls) recorded in one behaviour
MaxOutcomes == 2
\* process restarts that generate a new key in one behaviour
MaxRestarts == 1
\* the clock runs from StartTime to StartTime + MaxElapsed
MaxElapsed == 6
\* games recorded in a behaviour that plays its games to their end
MaxWholeGames == 1
\* scores of another player that land in the store in one behaviour
MaxOtherWrites == 2
\* save_score executions of Guess_Number_Game.py in one behaviour
MaxSaves == 2
\* concurrent requests at the top-player cache in one behaviour
MaxThreads == 2
\* the most points a stored row holds where titles are looked at
MaxTitlePoints == 10001

(***************************************************************************)
(* Program constants.                                                      *)
(***************************************************************************)
CACHE_TIMEOUT_SECONDS == 5
\* the limit(100) of the leaderboard query
LEADERBOARD_LIMIT == 100

\* GameConfig.DIFFICULTY_SETTINGS
DIFFICULTY_SETTINGS ==
    [easy       |-> [max_number |-> 10,      max_attempts |-> 3,  points |-> 3],
     medium     |-> [max_number |-> 100,     max_attempts |-> 8,  points |-> 10],
     hard       |-> [max_number |-> 1000,    max_attempts |-> 15, points |-> 20],
     impossible |-> [max_number |-> 100000,  max_attempts |-> 25, points |-> 45],
     million    |-> [max_number |-> 1000000, max_attempts |-> 50, points |-> 150]]

\* GameConfig.TITLES, in the order of the list
TITLES ==
    << [name |-> "Newbie",   threshold |-> 100],
       [name |-> "Rookie",   threshold |-> 500],
       [name |-> "Pro",      threshold |-> 2500],
       [name |-> "Legend",   threshold |-> 5000],
       [name |-> "Champion", threshold |-> 10000] >>

\* Python's None where a username is expected (a username is a sequence of
\* characters; the empty string never passes LoginRequest, and both are falsy)
None == << >>
\* Python's None where a title is expected
NoTitle == "None"

(***************************************************************************)
(* Dictionaries.                                                           *)
(***************************************************************************)
\* k in d
Has(d, k) == k \in DOMAIN d
\* d.get(k, default)
Get(d, k, default) == IF k \in DOMAIN d THEN d[k] ELSE default
\* d[k] = v
Put(d, k, v) == [x \in DOMAIN d \cup {k} |-> IF x = k THEN v ELSE d[x]]
\* d.pop(k, None)
Pop(d, k) == [x \in DOMAIN d \ {k} |-> d[x]]
\* d.setdefault(k, v)
SetDefault(d, k, v) == IF k \in DOMAIN d THEN d ELSE Put(d, k, v)
\* {} : the dictionary with no key
EmptyDict == [x \in {} |-> 0]

VARIABLES
    session,            \* the Flask session of the browser (a dictionary)
    resp,               \* the response to the last request, with the request's place
    TOP_PLAYER_CACHE,   \* routes.py:28
    LEADERBOARD_CACHE,  \* routes.py:29
    cipher_key,         \* the key of current_app.cipher_suite (an identity)
    creds,              \* SUPABASE_URL and SUPABASE_KEY are both in the environment
    store_reachable,    \* a query sent to the store now is answered
    store,              \* the leaderboard table: username -> row
    task_queue,         \* current_app.task_queue: the tasks enqueued and not yet run
    now,                \* time.time()
    outcomes,           \* save_score_async calls so far
    game_wins,          \* wins recorded since the last secret was sealed
    attempted,          \* background tasks run so far
    started_by,         \* the username in the session when the game in play was started
    saves,              \* Guess_Number_Game.py: the save_score executions under way
    threads,            \* concurrent requests at the top-player cache, statement by statement
    username_from,      \* the store row that TOP_PLAYER_CACHE['username'] was taken from
    board_read,         \* the columns read and the time of the query LEADERBOARD_CACHE['data'] came from
    store_changed_at    \* the time of the last write that changed a username or its points in the table

vars == << session, resp, TOP_PLAYER_CACHE, LEADERBOARD_CACHE, cipher_key, creds,
           store_reachable, store, task_queue, now, outcomes,
           game_wins, attempted, started_by, saves, threads,
                    username_from, board_read, store_changed_at >>

\* time.time() when the process starts: far more than the cache timeout after 0
StartTime == 10

(***************************************************************************)
(* The context a request handler works in: the session as it stands, the   *)
(* two caches, the outcomes recorded and the tasks enqueued by this        *)
(* request, and whether an exception is propagating.                       *)
(***************************************************************************)
Ctx(s, cache, board) ==
    [s |-> s, cache |-> cache, board |-> board, rec |-> << >>, out |-> << >>,
     raised |-> FALSE]

\* SaveScoreNoEnqueue: save_score_async without its step 2
SaveScoreNoEnqueue(c, username, points_to_add, won) ==
    LET s1 == Put(c.s, "points", Get(c.s, "points", 0) + points_to_add)
        s2 == Put(s1, "total_games", Get(s1, "total_games", 0) + 1)
        s3 == IF won THEN Put(s2, "correct_guesses", Get(s2, "correct_guesses", 0) + 1)
                     ELSE s2
        o  == [username |-> username, points |-> points_to_add, won |-> won]
    IN  [c EXCEPT !.s = s3, !.rec = Append(@, o)]

\* SaveScoreNoCorrect: save_score_async leaving correct_guesses as it is
SaveScoreNoCorrect(c, username, points_to_add, won) ==
    LET s1 == Put(c.s, "points", Get(c.s, "points", 0) + points_to_add)
        s2 == Put(s1, "total_games", Get(s1, "total_games", 0) + 1)
        o  == [username |-> username, points |-> points_to_add, won |-> won]
    IN  [c EXCEPT !.s = s2, !.rec = Append(@, o), !.out = Append(@, o)]

\* SaveScoreDoubleCount: save_score_async counting the game twice
SaveScoreDoubleCount(c, username, points_to_add, won) ==
    LET s1 == Put(c.s, "points", Get(c.s, "points", 0) + points_to_add)
        s2 == Put(s1, "total_games", Get(s1, "total_games", 0) + 2)
        s3 == IF won THEN Put(s2, "correct_guesses", Get(s2, "correct_guesses", 0) + 1)
                     ELSE s2
        o  == [username |-> username, points |-> points_to_add, won |-> won]
    IN  [c EXCEPT !.s = s3, !.rec = Append(@, o), !.out = Append(@, o)]

\* save_score_async(username, points_to_add, won): the session counters at
\* once, then one task on the queue (create_app always sets task_queue)
save_score_async(c, username, points_to_add, won) ==
    LET s1 == Put(c.s, "points", Get(c.s, "points", 0) + points_to_add)
        s2 == Put(s1, "total_games", Get(s1, "total_games", 0) + 1)
        s3 == IF won THEN Put(s2, "correct_guesses", Get(s2, "correct_guesses", 0) + 1)
                     ELSE s2
        o  == [username |-> username, points |-> points_to_add, won |-> won]
    IN  [c EXCEPT !.s = s3, !.rec = Append(@, o), !.out = Append(@, o)]

\* the title of the highest threshold at index i or below that points meets
RECURSIVE TitleFrom(_, _)
TitleFrom(points, i) ==
    IF i = 0 THEN NoTitle
    ELSE IF points >= TITLES[i].threshold THEN TITLES[i].name
    ELSE TitleFrom(points, i - 1)

\* FirstTitleMet: get_player_title looping over TITLES as listed
FirstTitleMet(points) ==
    IF points >= TITLES[1].threshold THEN TITLES[1].name ELSE NoTitle

\* get_player_title(points): the loop over reversed(TITLES)
get_player_title(points) == TitleFrom(points, Len(TITLES))

\* the rows `order('points', desc=True).limit(1)` may answer with: the store
\* orders rows of equal points either way
TopRows ==
    IF DOMAIN store = {} THEN { << >> }
    ELSE { << [username |-> u, points |-> store[u].points] >> :
             u \in { v \in DOMAIN store :
                       \A w \in DOMAIN store : store[w].points <= store[v].points } }

\* get_database_client() gives a client (not None): create_client builds one
\* from the credentials without talking to the store
HasClient == creds

\* CheckAlwaysAsks: check_if_user_is_the_one asking the store at every call
CheckAlwaysAsks(c, username, current_user_points, data) ==
    LET cache   == c.cache
        fresh   == HasClient /\ store_reachable /\ Len(data) > 0
        top_user   == IF fresh THEN data[1].username ELSE cache.username
        top_points == IF fresh THEN data[1].points ELSE cache.points
        cache1  == IF fresh
                   THEN [username |-> top_user, points |-> top_points, last_updated |-> now]
                   ELSE cache
    IN  IF HasClient /\ ~store_reachable
        THEN [c |-> [c EXCEPT !.raised = TRUE], val |-> FALSE]
        ELSE [c |-> [c EXCEPT !.cache = cache1],
              val |-> (current_user_points > top_points) \/ (top_user = username)]

\* check_if_user_is_the_one(username, current_user_points), `data` being what
\* the store answers if it is asked.  A store that cannot be reached makes
\* execute() raise; the handler catches InvalidToken only, which the store
\* client never raises, so the exception leaves the function.
check_if_user_is_the_one(c, username, current_user_points, data) ==
    LET cache   == c.cache
        expired == cache.username = None
                     \/ now - cache.last_updated > CACHE_TIMEOUT_SECONDS
        asks    == expired /\ HasClient
        fresh   == asks /\ store_reachable /\ Len(data) > 0
        top_user   == IF fresh THEN data[1].username ELSE cache.username
        top_points == IF fresh THEN data[1].points ELSE cache.points
        cache1  == IF fresh
                   THEN [username |-> top_user, points |-> top_points, last_updated |-> now]
                   ELSE cache
    IN  IF asks /\ ~store_reachable
        THEN [c |-> [c EXCEPT !.raised = TRUE], val |-> FALSE]
        ELSE [c |-> [c EXCEPT !.cache = cache1],
              val |-> (current_user_points > top_points) \/ (top_user = username)]

\* initialize_session_defaults()
initialize_session_defaults(s) ==
    LET d1 == SetDefault(s,  "points", 0)
        d2 == SetDefault(d1, "total_games", 0)
        d3 == SetDefault(d2, "correct_guesses", 0)
        d4 == SetDefault(d3, "difficulty", "easy")
        d5 == SetDefault(d4, "attempts", 0)
        d6 == SetDefault(d5, "game_ready", FALSE)
        d7 == SetDefault(d6, "guess_history", << >>)
        d8 == SetDefault(d7, "is_the_one", FALSE)
    IN  SetDefault(d8, "offline_mode", FALSE)

\* forfeit_game_if_active()
forfeit_game_if_active(c) ==
    IF Get(c.s, "game_ready", FALSE) /\ Has(c.s, "target_token")
    THEN IF Get(c.s, "username", None) # None
         THEN save_score_async(c, c.s["username"], 0, FALSE)
         ELSE c
    ELSE c

\* ClearKeepsToken: clear_game_state without the pop of target_token
ClearKeepsToken(s) ==
    Put(Put(Pop(s, "game_start_time"), "game_ready", FALSE), "attempts", 0)

\* clear_game_state()
clear_game_state(s) ==
    Put(Put(Pop(Pop(s, "target_token"), "game_start_time"), "game_ready", FALSE),
        "attempts", 0)

(***************************************************************************)
(* Request validation (app/schemas.py).                                    *)
(***************************************************************************)
Letters == { "a", "b", "c", "d", "e", "f", "g", "h", "i", "j", "k", "l", "m",
             "n", "o", "p", "q", "r", "s", "t", "u", "v", "w", "x", "y", "z",
             "A", "B", "C", "D", "E", "F", "G", "H", "I", "J", "K", "L", "M",
             "N", "O", "P", "Q", "R", "S", "T", "U", "V", "W", "X", "Y", "Z" }
Digits == { "0", "1", "2", "3", "4", "5", "6", "7", "8", "9" }

\* LoginRequestAnyLength: LoginRequest without max_length
LoginRequestAnyLength(request_data) ==
    /\ Has(request_data, "username")
    /\ Len(request_data["username"]) >= 1
    /\ \A i \in 1..Len(request_data["username"]) :
          request_data["username"][i] \in Letters \cup Digits

\* LoginRequest(**request_data) validates: username is required, of 1 to 12
\* characters, all of them letters or digits
LoginRequest(request_data) ==
    /\ Has(request_data, "username")
    /\ Len(request_data["username"]) >= 1
    /\ Len(request_data["username"]) <= 12
    /\ \A i \in 1..Len(request_data["username"]) :
          request_data["username"][i] \in Letters \cup Digits

\* A JSON value sent as `guess`: an integer, or a string that is no number
IntValue(n) == [kind |-> "int", val |-> n]
TextValue   == [kind |-> "str", val |-> 0]

\* GuessRequestAnyValue: GuessRequest taking whatever value guess has
GuessRequestAnyValue(request_data) ==
    Has(request_data, "guess")

\* GuessRequest(**request_data) validates: guess is required, an integer, >= 1
GuessRequest(request_data) ==
    /\ Has(request_data, "guess")
    /\ request_data["guess"].kind = "int"
    /\ request_data["guess"].val >= 1

(***************************************************************************)
(* flask_login.                                                            *)
(***************************************************************************)
\* current_user.is_authenticated: login_user put the user's id in the session
is_authenticated(s) == Has(s, "_user_id")

\* What login_required answers with when no user is logged in:
\* LoginManager.unauthorized().  login_view is set (app/__init__.py:50), so it
\* flashes the login message into the session and redirects to the login
\* view; it would abort(401) with no login_view.  '_flashes' is a list of
\* one such message or more, all the same: the model keeps that it is there.
unauthorized(c) ==
    [c    |-> [c EXCEPT !.s = Put(@, "_flashes", "login_message")],
     resp |-> [code |-> 302, location |-> "/api/login"]]

\* an exception no handler catches: Flask answers 500
Raise(c) == [c |-> [c EXCEPT !.raised = TRUE], resp |-> [code |-> 500]]

(***************************************************************************)
(* The routes (app/routes.py).  Each takes the context and the request's   *)
(* JSON body, and `data`, the store's answer to the top-player query.      *)
(***************************************************************************)
TitleOf(is_the_one, points) == IF is_the_one THEN "THE ONE" ELSE get_player_title(points)

\* GET /
index_page(c, data) ==
    LET c1 == IF Get(c.s, "game_ready", FALSE)
              THEN LET f == forfeit_game_if_active(c)
                   IN  [f EXCEPT !.s = clear_game_state(@)]
              ELSE c
        c2 == [c1 EXCEPT !.s = initialize_session_defaults(@)]
    IN  IF Get(c2.s, "username", None) # None
        THEN LET user_points == Get(c2.s, "points", 0)
                 chk == check_if_user_is_the_one(c2, c2.s["username"], user_points, data)
             IN  IF chk.c.raised THEN Raise(chk.c)
                 ELSE [c    |-> IF chk.val
                                THEN [chk.c EXCEPT !.s = Put(@, "is_the_one", TRUE)]
                                ELSE chk.c,
                       resp |-> [code |-> 200, username |-> c2.s["username"],
                                 user_title |-> TitleOf(chk.val, user_points)]]
        ELSE [c |-> c2, resp |-> [code |-> 200, username |-> None, user_title |-> NoTitle]]

\* POST /api/login
handle_login(c, request_data, data) ==
    IF ~LoginRequest(request_data)
    THEN [c |-> c, resp |-> [code |-> 400, message |-> "validation"]]
    ELSE
    LET username == request_data["username"]
        \* login_user(user, remember=True)
        s1 == Put(c.s, "_user_id", username)
        s2 == Put(Put(s1, "username", username), "offline_mode", FALSE)
        c2 == [c EXCEPT !.s = s2]
    IN  IF HasClient
        THEN IF ~store_reachable THEN Raise(c2)
             ELSE IF username \in DOMAIN store
             THEN LET user_data == store[username]
                      s3 == Put(Put(Put(s2, "points", user_data.points),
                                    "total_games", user_data.total_games),
                                "correct_guesses", user_data.correct_guesses)
                      chk == check_if_user_is_the_one([c2 EXCEPT !.s = s3], username,
                                                      user_data.points, data)
                      current_title == TitleOf(chk.val, user_data.points)
                  IN  IF chk.c.raised THEN Raise(chk.c)
                      ELSE [c    |-> [chk.c EXCEPT
                                        !.s = Put(@, "is_the_one", current_title = "THE ONE")],
                            resp |-> [code |-> 200, success |-> TRUE,
                                      points |-> user_data.points,
                                      title |-> current_title, offline |-> FALSE]]
             ELSE [c    |-> [c2 EXCEPT !.s = Put(@, "points", 0)],
                   resp |-> [code |-> 200, success |-> TRUE, points |-> 0,
                             title |-> NoTitle, offline |-> FALSE]]
        ELSE [c    |-> [c2 EXCEPT !.s = Put(Put(@, "offline_mode", TRUE), "points", 0)],
              resp |-> [code |-> 200, success |-> TRUE, points |-> 0,
                        title |-> NoTitle, offline |-> TRUE]]

\* SetDifficultyUnsaved: set_difficulty_level answering without storing the
\* difficulty in the session
SetDifficultyUnsaved(c, request_data) ==
    IF ~is_authenticated(c.s) THEN unauthorized(c)
    ELSE
    LET f  == forfeit_game_if_active(c)
        c1 == [f EXCEPT !.s = clear_game_state(@)]
        new_difficulty == Get(request_data, "difficulty", "easy")
    IN  IF new_difficulty \notin DOMAIN DIFFICULTY_SETTINGS
        THEN [c |-> c1, resp |-> [code |-> 400, message |-> "Invalid difficulty"]]
        ELSE [c    |-> c1,
              resp |-> [code |-> 200,
                        max_number |-> DIFFICULTY_SETTINGS[new_difficulty].max_number]]

\* SetDifficultyUnchecked: set_difficulty_level storing whatever name the
\* request carries
SetDifficultyUnchecked(c, request_data) ==
    IF ~is_authenticated(c.s) THEN unauthorized(c)
    ELSE
    LET f  == forfeit_game_if_active(c)
        c1 == [f EXCEPT !.s = clear_game_state(@)]
        new_difficulty == Get(request_data, "difficulty", "easy")
    IN  [c    |-> [c1 EXCEPT !.s = Put(@, "difficulty", new_difficulty)],
         resp |-> [code |-> 200,
                   max_number |-> IF new_difficulty \in DOMAIN DIFFICULTY_SETTINGS
                                  THEN DIFFICULTY_SETTINGS[new_difficulty].max_number
                                  ELSE 0]]

\* POST /api/difficulty
set_difficulty_level(c, request_data) ==
    IF ~is_authenticated(c.s) THEN unauthorized(c)
    ELSE
    LET f  == forfeit_game_if_active(c)
        c1 == [f EXCEPT !.s = clear_game_state(@)]
        new_difficulty == Get(request_data, "difficulty", "easy")
    IN  IF new_difficulty \notin DOMAIN DIFFICULTY_SETTINGS
        THEN [c |-> c1, resp |-> [code |-> 400, message |-> "Invalid difficulty"]]
        ELSE [c    |-> [c1 EXCEPT !.s = Put(@, "difficulty", new_difficulty)],
              resp |-> [code |-> 200,
                        max_number |-> DIFFICULTY_SETTINGS[new_difficulty].max_number]]

DigitSeq == << "0", "1", "2", "3", "4", "5", "6", "7", "8", "9" >>

\* StrLastDigit: str() keeping the last digit only
StrLastDigit(number) == << DigitSeq[(number % 10) + 1] >>

\* str(number): the decimal digits, after a minus sign below zero
RECURSIVE Str(_)
Str(number) ==
    IF number < 0 THEN << "-" >> \o Str(-number)
    ELSE IF number < 10 THEN << DigitSeq[number + 1] >>
    ELSE Str(number \div 10) \o << DigitSeq[(number % 10) + 1] >>

\* int(text) of a text that str() gave
RECURSIVE ParseInt(_)
ParseInt(text) ==
    IF text[1] = "-" THEN -ParseInt(Tail(text))
    ELSE LET last == CHOOSE d \in 0..9 : DigitSeq[d + 1] = text[Len(text)]
         IN  IF Len(text) = 1 THEN last
             ELSE 10 * ParseInt(SubSeq(text, 1, Len(text) - 1)) + last

\* cipher_suite.encrypt(str(target_number).encode()).decode(): a token that
\* holds the text and says which key sealed it
Encrypt(target_number) == [text |-> Str(target_number), key |-> cipher_key]

\* int(cipher_suite.decrypt(token.encode()).decode()), where decrypt does not
\* raise
Decrypt(token) == ParseInt(token.text)

\* cipher_suite.decrypt(token) raises InvalidToken
InvalidToken(token) == token.key # cipher_key

\* time.time() as start_game stores it; the value is read for the text of the
\* win message only
StartedAt == "time"

\* POST /api/start, target_number being what random.randint draws
start_game(c, target_number) ==
    IF ~is_authenticated(c.s) THEN unauthorized(c)
    ELSE
    LET f  == forfeit_game_if_active(c)
        s1 == clear_game_state(f.s)
        settings == DIFFICULTY_SETTINGS[Get(s1, "difficulty", "easy")]
        s2 == Put(s1, "target_token", Encrypt(target_number))
        s3 == Put(Put(Put(Put(s2, "attempts", 0), "game_ready", TRUE),
                      "game_start_time", StartedAt), "guess_history", << >>)
    IN  [c    |-> [f EXCEPT !.s = s3],
         resp |-> [code |-> 200, game_ready |-> TRUE, max_number |-> settings.max_number]]

\* ProcessGuessValidatesFirst: process_guess validating the body ahead of the
\* state check (what it does with a game in play left out)
ProcessGuessValidatesFirst(c, request_data, data) ==
    IF ~is_authenticated(c.s) THEN unauthorized(c)
    ELSE IF ~GuessRequest(request_data)
    THEN [c |-> c, resp |-> [code |-> 400, status |-> "error",
                             message |-> "Invalid number."]]
    ELSE [c |-> c, resp |-> [code |-> 400, error |-> "State Error",
                             message |-> "Game not started"]]

\* POST /api/guess
process_guess(c, request_data, data) ==
    IF ~is_authenticated(c.s) THEN unauthorized(c)
    ELSE IF ~Get(c.s, "game_ready", FALSE) \/ ~Has(c.s, "target_token")
    THEN [c |-> c, resp |-> [code |-> 400, error |-> "State Error",
                             message |-> "Game not started"]]
    ELSE IF ~GuessRequest(request_data)
    THEN [c |-> c, resp |-> [code |-> 400, status |-> "error",
                             message |-> "Invalid number."]]
    ELSE IF InvalidToken(c.s["target_token"])
    THEN [c |-> c, resp |-> [code |-> 400, error |-> "Security Error",
                             message |-> "Invalid Session Token."]]
    ELSE
    LET guess_value    == request_data["guess"].val
        correct_number == Decrypt(c.s["target_token"])
        settings == DIFFICULTY_SETTINGS[Get(c.s, "difficulty", "easy")]
        s1 == Put(c.s, "guess_history", Append(Get(c.s, "guess_history", << >>), guess_value))
        s2 == Put(s1, "attempts", s1["attempts"] + 1)
        c2 == [c EXCEPT !.s = s2]
    IN  IF guess_value = correct_number
        THEN LET c3  == save_score_async(c2, s2["username"], settings.points, TRUE)
                 chk == check_if_user_is_the_one(c3, c3.s["username"], c3.s["points"], data)
                 new_title == TitleOf(chk.val, c3.s["points"])
             IN  IF chk.c.raised THEN Raise(chk.c)
                 ELSE [c    |-> [chk.c EXCEPT !.s = clear_game_state(
                                      Put(@, "is_the_one", new_title = "THE ONE"))],
                       resp |-> [code |-> 200, status |-> "win",
                                 new_points |-> c3.s["points"], new_title |-> new_title]]
        ELSE IF s2["attempts"] >= settings.max_attempts
        THEN LET c3 == save_score_async(c2, s2["username"], 0, FALSE)
             IN  [c    |-> [c3 EXCEPT !.s = clear_game_state(@)],
                  resp |-> [code |-> 200, status |-> "lose"]]
        ELSE [c    |-> c2,
              resp |-> [code |-> 200, status |-> "continue",
                        hint |-> IF guess_value < correct_number THEN "Higher" ELSE "Lower",
                        attempts_left |-> settings.max_attempts - s2["attempts"]]]

\* GET /api/stats
get_user_stats(c) ==
    IF ~is_authenticated(c.s) THEN unauthorized(c)
    ELSE LET user_points == Get(c.s, "points", 0)
         IN  [c    |-> c,
              resp |-> [code |-> 200, points |-> user_points,
                        total_games |-> Get(c.s, "total_games", 0),
                        correct_guesses |-> Get(c.s, "correct_guesses", 0),
                        title |-> TitleOf(Get(c.s, "is_the_one", FALSE), user_points),
                        offline |-> Get(c.s, "offline_mode", FALSE)]]

\* The rows `order('points', desc=True)` may answer with, drawn from the rows
\* of `names`: the rows above a pivot score before the others, rows of equal
\* points in either order
RECURSIVE RankedFrom(_)
RankedFrom(names) ==
    LET values == { store[u].points : u \in names }
    IN  IF names = { } THEN { << >> }
        ELSE IF Cardinality(values) = 1
        THEN UNION { { << [username |-> u, points |-> store[u].points] >> \o rest :
                         rest \in RankedFrom(names \ { u }) } : u \in names }
        ELSE LET pivot == CHOOSE p \in values :
                              Cardinality({ v \in values : v > p })
                                  = Cardinality(values) \div 2
             IN  { high \o low :
                     high \in RankedFrom({ u \in names : store[u].points > pivot }),
                     low  \in RankedFrom({ u \in names : store[u].points <= pivot }) }

\* AllRankedRows: the ranked query without its limit
AllRankedRows == RankedFrom(DOMAIN store)

\* ... and `.limit(100)` keeps the first rows of it
RankedRows ==
    { SubSeq(rows, 1, IF Len(rows) < LEADERBOARD_LIMIT THEN Len(rows)
                      ELSE LEADERBOARD_LIMIT) :
        rows \in RankedFrom(DOMAIN store) }

\* LeaderboardNeverExpires: get_leaderboard_data serving its snapshot whatever
\* its age
LeaderboardNeverExpires(c, data) ==
    IF c.board.data # << >>
    THEN [c |-> c, resp |-> [code |-> 200, data |-> c.board.data]]
    ELSE IF ~HasClient THEN [c |-> c, resp |-> [code |-> 200, error |-> "db_down"]]
    ELSE IF ~store_reachable THEN Raise(c)
    ELSE
    LET leaderboard_data ==
            [index \in 1..Len(data) |->
                [username |-> data[index].username,
                 points   |-> data[index].points,
                 title    |-> IF index = 1 THEN "THE ONE"
                              ELSE get_player_title(data[index].points)]]
        cache1 == IF Len(data) > 0
                  THEN [username |-> data[1].username, points |-> data[1].points,
                        last_updated |-> now]
                  ELSE c.cache
    IN  [c    |-> [c EXCEPT !.cache = cache1,
                            !.board = [data |-> leaderboard_data, last_updated |-> now]],
         resp |-> [code |-> 200, data |-> leaderboard_data]]

\* GET /api/leaderboard, `data` being what the store answers if it is asked
get_leaderboard_data(c, data) ==
    IF c.board.data # << >> /\ now - c.board.last_updated < CACHE_TIMEOUT_SECONDS
    THEN [c |-> c, resp |-> [code |-> 200, data |-> c.board.data]]
    ELSE IF ~HasClient
    THEN [c    |-> c,
          resp |-> IF c.board.data # << >> THEN [code |-> 200, data |-> c.board.data]
                                           ELSE [code |-> 200, error |-> "db_down"]]
    ELSE IF ~store_reachable THEN Raise(c)
    ELSE
    LET leaderboard_data ==
            [index \in 1..Len(data) |->
                [username |-> data[index].username,
                 points   |-> data[index].points,
                 title    |-> IF index = 1 THEN "THE ONE"
                              ELSE get_player_title(data[index].points)]]
        cache1 == IF Len(data) > 0
                  THEN [username |-> data[1].username, points |-> data[1].points,
                        last_updated |-> now]
                  ELSE c.cache
    IN  [c    |-> [c EXCEPT !.cache = cache1,
                            !.board = [data |-> leaderboard_data, last_updated |-> now]],
         resp |-> [code |-> 200, data |-> leaderboard_data]]

\* GET /logout: forfeit, logout_user(), session.clear()
handle_logout(c) ==
    LET f == forfeit_game_if_active(c)
    IN  [c |-> [f EXCEPT !.s = EmptyDict], resp |-> [code |-> 200, success |-> TRUE]]

(***************************************************************************)
(* The background task and the store.                                      *)
(***************************************************************************)
NoRow == [points |-> 0, total_games |-> 0, correct_guesses |-> 0]

\* The store's update_score(p_username, p_points, p_won) procedure: add the
\* delta to the user's row, a missing row counting as zero
update_score(rows, p_username, p_points, p_won) ==
    LET old == IF p_username \in DOMAIN rows THEN rows[p_username] ELSE NoRow
    IN  Put(rows, p_username,
            [points          |-> old.points + p_points,
             total_games     |-> old.total_games + 1,
             correct_guesses |-> old.correct_guesses + (IF p_won THEN 1 ELSE 0)])

\* _save_score_background_task(username, points, won): what it leaves in the store
save_score_background_task(task) ==
    IF ~creds THEN store
    ELSE IF ~store_reachable THEN store
    ELSE update_score(store, task.username, task.points, task.won)

(***************************************************************************)
(* save_score of the single-file program (Guess_Number_Game.py), which     *)
(* reads the row, adds, and writes the row back.  Each execution is a      *)
(* record: where it stands, its arguments, the row it read, and the        *)
(* counters it left in its session.                                        *)
(***************************************************************************)
SaveProcs == 1..MaxSaves

IdleSave ==
    [pc |-> "idle", username |-> None, points_to_add |-> 0, won |-> FALSE,
     current_data |-> NoRow, wrote |-> FALSE, session |-> NoRow]

\* what guess() passes to save_score: the points of a won game, 0 of a lost one
SaveArguments ==
    { [points_to_add |-> DIFFICULTY_SETTINGS[d].points, won |-> TRUE] :
        d \in DOMAIN DIFFICULTY_SETTINGS }
        \cup { [points_to_add |-> 0, won |-> FALSE] }

\* new_total, new_points, new_correct of an execution
NewRow(save) ==
    [points          |-> save.current_data.points + save.points_to_add,
     total_games     |-> save.current_data.total_games + 1,
     correct_guesses |-> save.current_data.correct_guesses + (IF save.won THEN 1 ELSE 0)]

\* UpsertOntoRow: an upsert that adds to the row as the store holds it
UpsertOntoRow(rows, save) ==
    update_score(rows, save.username, save.points_to_add, save.won)

\* supabase.table('leaderboard').upsert({...}).execute(): the row replaced
\* by the one computed from what was read
save_score_upsert(rows, save) == Put(rows, save.username, NewRow(save))

(***************************************************************************)
(* Requests served concurrently (the server runs them in threads of one    *)
(* process): the statements of check_if_user_is_the_one and of             *)
(* get_leaderboard_data that read or write the caches, one at a time.      *)
(* Each thread is a record: the statement it is at, the function it runs,  *)
(* and its local variables.                                                *)
(***************************************************************************)
ThreadIds == 1..MaxThreads

NoSource == [username |-> None, points |-> 0]

\* the columns of the table the ranked query reads: username -> points
RankedColumns(rows) == [u \in DOMAIN rows |-> rows[u].points]

\* no ranked query has been answered yet
NoRead == [rows |-> EmptyDict, at |-> 0]

IdleThread ==
    [pc |-> "idle", kind |-> "none", current_time |-> 0,
     cached_top_user |-> None, cached_top_points |-> 0,
     top_data |-> NoSource, leaderboard_data |-> << >>,
     paired_points |-> 0, read_rows |-> EmptyDict, raised |-> FALSE]

\* sequence q without its i-th element
Without(q, i) == SubSeq(q, 1, i - 1) \o SubSeq(q, i + 1, Len(q))

\* what random.randint(lo, hi) draws, sampled more widely: the ends, and the
\* numbers around every power of ten in between
SealSamples(lo, hi) ==
    { n \in { lo, lo + 1, hi - 1, hi }
              \cup UNION { { p - 1, p, p + 1 } : p \in { 10, 100, 1000, 10000, 100000 } } :
        lo <= n /\ n <= hi }

\* RandintPastEnds: a draw that may fall one outside either end
RandintPastEnds(lo, hi) == { lo - 1, hi + 1 }

(***************************************************************************)
(* The inputs the requests of the model carry.                             *)
(***************************************************************************)
\* what random.randint(lo, hi) draws: both ends of the range
RandintSamples(lo, hi) == { lo, hi }

\* usernames that LoginRequest refuses: empty, not alphanumeric, 13 characters
BadUsernames ==
    { << >>, <<"H", "$">>, <<"a","b","c","d","e","f","g","h","i","j","k","l","m">> }

\* JSON bodies of POST /api/login: by the users `users`, and with `bad` the
\* bodies that LoginRequest refuses
LoginBodies(users, bad) ==
    { [username |-> u] : u \in users }
        \cup (IF bad THEN { [username |-> u] : u \in BadUsernames } \cup { EmptyDict }
                     ELSE { })

\* JSON bodies of POST /api/difficulty naming the difficulties `names`, a
\* difficulty that does not exist, and none
DifficultyBodies(names) ==
    { [difficulty |-> d] : d \in names \cup { "bogus" } } \cup { EmptyDict }

\* the session is playing
Playing(s) == Get(s, "game_ready", FALSE) /\ Has(s, "target_token")

\* the guess about to be sent is the last one the attempt budget allows
LastAttempt ==
    /\ Playing(session)
    /\ session["attempts"] + 1
         >= DIFFICULTY_SETTINGS[Get(session, "difficulty", "easy")].max_attempts

\* Integers sent as a guess: the secret, a wrong value of the range, one
\* below the range and one above it.  A game played to its end (`whole`) is
\* sent the secret or the wrong value, and as its last guess also the value
\* above the range.
GuessNumbers(whole) ==
    IF ~Playing(session) THEN { 1 }
    ELSE LET settings == DIFFICULTY_SETTINGS[Get(session, "difficulty", "easy")]
             n == Decrypt(session["target_token"])
             wrong == IF n = 1 THEN 2 ELSE 1
         IN  IF ~whole THEN { 0, n, wrong, settings.max_number + 1 }
             ELSE IF LastAttempt THEN { n, wrong, settings.max_number + 1 }
             ELSE { n, wrong }

\* JSON bodies of POST /api/guess
GuessBodies(whole) ==
    { [guess |-> IntValue(g)] : g \in GuessNumbers(whole) }
        \cup (IF whole THEN { } ELSE { [guess |-> TextValue], EmptyDict })

(***************************************************************************)
(* The state after create_app(), before the first request.                 *)
(***************************************************************************)
\* the leaderboard table holds one other player's row
InitStore ==
    [u \in { <<"b">> } |-> [points |-> 5, total_games |-> 3, correct_guesses |-> 1]]

InitWith(stores) ==
    /\ session = EmptyDict
    /\ resp = [op |-> "none", code |-> 0, rec |-> << >>, out |-> << >>]
    /\ TOP_PLAYER_CACHE = [username |-> None, points |-> 0, last_updated |-> 0]
    /\ LEADERBOARD_CACHE = [data |-> << >>, last_updated |-> 0]
    /\ cipher_key = 0
    /\ creds \in BOOLEAN
    /\ store_reachable \in IF creds THEN BOOLEAN ELSE { TRUE }
    /\ store \in stores
    /\ task_queue = << >>
    /\ now = StartTime
    /\ outcomes = 0
    /\ game_wins = 0
    /\ attempted = 0
    /\ started_by = None
    /\ saves = [i \in SaveProcs |-> IdleSave]
    /\ threads = [i \in ThreadIds |-> IdleThread]
    /\ username_from = NoSource
    /\ board_read = NoRead
    /\ store_changed_at = 0

Init == InitWith({ InitStore })

(***************************************************************************)
(* A request handled: r is what the route made of the context.  A 500 is   *)
(* sent with the session as the handler left it (Flask's handle_exception  *)
(* finalizes the response), or, under PROPAGATE_EXCEPTIONS (debug,         *)
(* testing), without any session; what the request did to the process (the *)
(* cache, the queue) stays done either way.  resp keeps the response with  *)
(* the route answering, the outcomes it recorded and the tasks it enqueued.*)
(* `drawn` says the request sealed a new secret.                           *)
(***************************************************************************)
WinsOf(rec) == Cardinality({ i \in 1..Len(rec) : rec[i].won })

Handled(op, r, drawn) ==
    /\ outcomes + Len(r.c.rec) <= MaxOutcomes
    /\ \E saved \in IF r.c.raised THEN BOOLEAN ELSE { TRUE } :
          session' = IF saved THEN r.c.s ELSE session
    /\ resp' = [op |-> op, rec |-> r.c.rec, out |-> r.c.out] @@ r.resp
    /\ TOP_PLAYER_CACHE' = r.c.cache
    /\ LEADERBOARD_CACHE' = r.c.board
    /\ task_queue' = task_queue \o r.c.out
    /\ outcomes' = outcomes + Len(r.c.rec)
    /\ game_wins' = IF drawn THEN 0 ELSE game_wins + WinsOf(r.c.rec)
    /\ started_by' = IF op = "start" /\ r.resp.code = 200 THEN Get(r.c.s, "username", None)
                     ELSE IF Playing(session') THEN started_by
                     ELSE None
    /\ username_from' = IF r.c.cache = TOP_PLAYER_CACHE THEN username_from
                        ELSE [username |-> r.c.cache.username, points |-> r.c.cache.points]
    /\ board_read' = IF r.c.board = LEADERBOARD_CACHE THEN board_read
                     ELSE [rows |-> RankedColumns(store), at |-> now]
    /\ UNCHANGED << cipher_key, creds, store_reachable, store, now, attempted, saves,
                    threads, store_changed_at >>

Here == Ctx(session, TOP_PLAYER_CACHE, LEADERBOARD_CACHE)

Index == \E data \in TopRows : Handled("index", index_page(Here, data), FALSE)

Login(users, bad) ==
    \E body \in LoginBodies(users, bad), data \in TopRows :
        Handled("login", handle_login(Here, body, data), FALSE)

SetDifficulty(names) ==
    \E body \in DifficultyBodies(names) :
        Handled("difficulty", set_difficulty_level(Here, body), FALSE)

\* POST /api/start, random.randint drawing from its two ends, or from the
\* sealing samples when seals
StartDrawing(seals) ==
    \E n \in LET max_number ==
                  DIFFICULTY_SETTINGS[Get(session, "difficulty", "easy")].max_number
             IN  IF seals THEN SealSamples(1, max_number)
                 ELSE RandintSamples(1, max_number) :
        Handled("start", start_game(Here, n), is_authenticated(session))

Start == StartDrawing(FALSE)

Guess(whole) ==
    \E body \in GuessBodies(whole), data \in TopRows :
        Handled("guess", process_guess(Here, body, data), FALSE)

Stats == Handled("stats", get_user_stats(Here), FALSE)

Leaderboard ==
    \E data \in RankedRows :
        Handled("leaderboard", get_leaderboard_data(Here, data), FALSE)

Logout == Handled("logout", handle_logout(Here), FALSE)

(***************************************************************************)
(* The environment.                                                        *)
(***************************************************************************)
\* a background task runs, once, whatever its end
RunTask ==
    \E i \in 1..Len(task_queue) :
        /\ store' = save_score_background_task(task_queue[i])
        /\ task_queue' = Without(task_queue, i)
        /\ attempted' = attempted + 1
        /\ store_changed_at' = IF RankedColumns(store') = RankedColumns(store)
                           THEN store_changed_at ELSE now
        /\ UNCHANGED << session, resp, TOP_PLAYER_CACHE, LEADERBOARD_CACHE, cipher_key, creds,
                        store_reachable, now, outcomes, game_wins, started_by, saves, threads,
                        username_from, board_read >>

\* time passes, in steps that let the caches expire
TickSeconds == CACHE_TIMEOUT_SECONDS + 1

TickBy(seconds) ==
    /\ now + seconds <= StartTime + MaxElapsed
    /\ now' = now + seconds
    /\ UNCHANGED << session, resp, TOP_PLAYER_CACHE, LEADERBOARD_CACHE, cipher_key, creds,
                    store_reachable, store, task_queue, outcomes, game_wins,
                    attempted, started_by, saves, threads,
                    username_from, board_read, store_changed_at >>

Tick == TickBy(TickSeconds)

\* Another player's score lands in the store: the background task of a
\* session of another browser, or of another process
OtherPlayers == { <<"c">> }
OtherScores ==
    { [points |-> DIFFICULTY_SETTINGS.medium.points, won |-> TRUE],
      [points |-> 0, won |-> FALSE] }

OtherPlayerScores ==
    \E u \in OtherPlayers, o \in OtherScores :
        /\ creds
        /\ store_reachable
        /\ (IF u \in DOMAIN store THEN store[u].total_games ELSE 0) < MaxOtherWrites
        /\ store' = update_score(store, u, o.points, o.won)
        /\ store_changed_at' = IF RankedColumns(store') = RankedColumns(store)
                           THEN store_changed_at ELSE now
        /\ UNCHANGED << session, resp, TOP_PLAYER_CACHE, LEADERBOARD_CACHE, cipher_key,
                        creds, store_reachable, task_queue, now, outcomes, game_wins,
                        attempted, started_by, saves, threads,
                        username_from, board_read >>

\* the store becomes unreachable, or reachable again
StoreFlips ==
    /\ creds
    /\ store_reachable' = ~store_reachable
    /\ UNCHANGED << session, resp, TOP_PLAYER_CACHE, LEADERBOARD_CACHE, cipher_key, creds,
                    store, task_queue, now, outcomes, game_wins, attempted, started_by, saves, threads,
                    username_from, board_read, store_changed_at >>

\* save_score(username, points_to_add, won) up to the answer of its select:
\* without a client it returns at once, and a failing select ends it
SaveScoreRead(i, users) ==
    \E u \in users, a \in SaveArguments :
        /\ saves[i].pc = "idle"
        /\ saves' = [saves EXCEPT ![i] =
                IF ~creds \/ ~store_reachable
                THEN [IdleSave EXCEPT !.pc = "done", !.username = u,
                                      !.points_to_add = a.points_to_add, !.won = a.won]
                ELSE [IdleSave EXCEPT !.pc = "read", !.username = u,
                                      !.points_to_add = a.points_to_add, !.won = a.won,
                                      !.current_data = IF u \in DOMAIN store THEN store[u]
                                                       ELSE NoRow]]
        /\ UNCHANGED << session, resp, TOP_PLAYER_CACHE, LEADERBOARD_CACHE, cipher_key,
                        creds, store_reachable, store, task_queue, now, outcomes,
                        game_wins, attempted, started_by, threads,
                        username_from, board_read, store_changed_at >>

\* ... and from there to its end: the upsert and the session counters, or
\* neither when the upsert fails
SaveScoreUpsert(i) ==
    /\ saves[i].pc = "read"
    /\ IF store_reachable
       THEN /\ store' = save_score_upsert(store, saves[i])
            /\ saves' = [saves EXCEPT ![i].pc = "done", ![i].wrote = TRUE,
                                      ![i].session = NewRow(saves[i])]
       ELSE /\ store' = store
            /\ saves' = [saves EXCEPT ![i].pc = "done"]
    /\ store_changed_at' = IF RankedColumns(store') = RankedColumns(store)
                           THEN store_changed_at ELSE now
    /\ UNCHANGED << session, resp, TOP_PLAYER_CACHE, LEADERBOARD_CACHE, cipher_key,
                    creds, store_reachable, task_queue, now, outcomes, game_wins,
                    attempted, started_by, threads, username_from, board_read >>

\* what a step of a thread leaves alone besides the caches
ThreadFrame ==
    UNCHANGED << session, resp, cipher_key, creds, store_reachable, store, task_queue,
                 now, outcomes, game_wins, attempted, started_by, saves,
                 store_changed_at >>

\* check_if_user_is_the_one: current_time = time.time() and
\* cached_top_user = TOP_PLAYER_CACHE['username']
CheckReadUser(i) ==
    /\ threads[i].pc = "idle"
    /\ threads' = [threads EXCEPT ![i] =
            [IdleThread EXCEPT !.pc = "read_points", !.kind = "check",
                               !.current_time = now,
                               !.cached_top_user = TOP_PLAYER_CACHE.username,
                               !.paired_points = username_from.points]]
    /\ UNCHANGED << TOP_PLAYER_CACHE, LEADERBOARD_CACHE, username_from, board_read >>
    /\ ThreadFrame

\* cached_top_points = TOP_PLAYER_CACHE.get('points', 0)
CheckReadPoints(i) ==
    /\ threads[i].pc = "read_points"
    /\ threads' = [threads EXCEPT ![i].pc = "test",
                                  ![i].cached_top_points = TOP_PLAYER_CACHE.points]
    /\ UNCHANGED << TOP_PLAYER_CACHE, LEADERBOARD_CACHE, username_from, board_read >>
    /\ ThreadFrame

\* the test of the cache's age and, if it fails, the query for the top row:
\* the locals take the row's values before the cache does
CheckTest(i) ==
    /\ threads[i].pc = "test"
    /\ LET th      == threads[i]
           expired == th.cached_top_user = None
                        \/ th.current_time - TOP_PLAYER_CACHE.last_updated
                               > CACHE_TIMEOUT_SECONDS
       IN  IF ~(expired /\ HasClient)
           THEN threads' = [threads EXCEPT ![i].pc = "done"]
           ELSE IF ~store_reachable
           THEN threads' = [threads EXCEPT ![i].pc = "done", ![i].raised = TRUE]
           ELSE \E data \in TopRows :
                   threads' = [threads EXCEPT ![i] =
                       IF Len(data) = 0 THEN [th EXCEPT !.pc = "done"]
                       ELSE [th EXCEPT !.pc = "write_user",
                                       !.top_data = data[1],
                                       !.cached_top_user = data[1].username,
                                       !.cached_top_points = data[1].points,
                                       !.paired_points = data[1].points]]
    /\ UNCHANGED << TOP_PLAYER_CACHE, LEADERBOARD_CACHE, username_from, board_read >>
    /\ ThreadFrame

\* get_leaderboard_data up to the first row of the answer: the snapshot if it
\* is fresh, else the ranked query
BoardBegin(i) ==
    /\ threads[i].pc = "idle"
    /\ LET th == [IdleThread EXCEPT !.kind = "board", !.current_time = now]
       IN  IF LEADERBOARD_CACHE.data # << >>
                /\ now - LEADERBOARD_CACHE.last_updated < CACHE_TIMEOUT_SECONDS
           THEN threads' = [threads EXCEPT ![i] = [th EXCEPT !.pc = "done"]]
           ELSE IF ~HasClient
           THEN threads' = [threads EXCEPT ![i] = [th EXCEPT !.pc = "done"]]
           ELSE IF ~store_reachable
           THEN threads' = [threads EXCEPT ![i] = [th EXCEPT !.pc = "done", !.raised = TRUE]]
           ELSE \E data \in RankedRows :
                   threads' = [threads EXCEPT ![i] =
                       [th EXCEPT !.pc = IF Len(data) = 0 THEN "publish_data"
                                         ELSE "write_user",
                                  !.top_data = IF Len(data) = 0 THEN NoSource ELSE data[1],
                                  !.read_rows = RankedColumns(store),
                                  !.leaderboard_data =
                                      [index \in 1..Len(data) |->
                                          [username |-> data[index].username,
                                           points   |-> data[index].points,
                                           title    |-> IF index = 1 THEN "THE ONE"
                                                        ELSE get_player_title(data[index].points)]]]]
    /\ UNCHANGED << TOP_PLAYER_CACHE, LEADERBOARD_CACHE, username_from, board_read >>
    /\ ThreadFrame

\* TOP_PLAYER_CACHE['username'] = ...
WriteUser(i) ==
    /\ threads[i].pc = "write_user"
    /\ TOP_PLAYER_CACHE' = [TOP_PLAYER_CACHE EXCEPT !.username = threads[i].top_data.username]
    /\ username_from' = threads[i].top_data
    /\ threads' = [threads EXCEPT ![i].pc = "write_points"]
    /\ UNCHANGED << LEADERBOARD_CACHE, board_read >>
    /\ ThreadFrame

\* TOP_PLAYER_CACHE['points'] = ...
WritePoints(i) ==
    /\ threads[i].pc = "write_points"
    /\ TOP_PLAYER_CACHE' = [TOP_PLAYER_CACHE EXCEPT !.points = threads[i].top_data.points]
    /\ threads' = [threads EXCEPT ![i].pc = "write_time"]
    /\ UNCHANGED << LEADERBOARD_CACHE, username_from, board_read >>
    /\ ThreadFrame

\* TOP_PLAYER_CACHE['last_updated'] = current_time
WriteTime(i) ==
    /\ threads[i].pc = "write_time"
    /\ TOP_PLAYER_CACHE' = [TOP_PLAYER_CACHE EXCEPT !.last_updated = threads[i].current_time]
    /\ threads' = [threads EXCEPT ![i].pc = IF threads[i].kind = "board" THEN "publish_data"
                                            ELSE "done"]
    /\ UNCHANGED << LEADERBOARD_CACHE, username_from, board_read >>
    /\ ThreadFrame

\* LEADERBOARD_CACHE['data'] = leaderboard_data
PublishData(i) ==
    /\ threads[i].pc = "publish_data"
    /\ LEADERBOARD_CACHE' = [LEADERBOARD_CACHE EXCEPT !.data = threads[i].leaderboard_data]
    /\ threads' = [threads EXCEPT ![i].pc = "publish_time"]
    /\ board_read' = [rows |-> threads[i].read_rows, at |-> threads[i].current_time]
    /\ UNCHANGED << TOP_PLAYER_CACHE, username_from >>
    /\ ThreadFrame

\* LEADERBOARD_CACHE['last_updated'] = current_time
PublishTime(i) ==
    /\ threads[i].pc = "publish_time"
    /\ LEADERBOARD_CACHE' = [LEADERBOARD_CACHE EXCEPT !.last_updated = threads[i].current_time]
    /\ threads' = [threads EXCEPT ![i].pc = "done"]
    /\ UNCHANGED << TOP_PLAYER_CACHE, username_from, board_read >>
    /\ ThreadFrame

\* The process restarts with no FERNET_KEY in its environment: create_app()
\* generates a new key, and the module's caches start over.  The browser keeps
\* its session: SECRET_KEY signs it as before.
Restart ==
    /\ cipher_key < MaxRestarts
    /\ cipher_key' = cipher_key + 1
    /\ TOP_PLAYER_CACHE' = [username |-> None, points |-> 0, last_updated |-> 0]
    /\ LEADERBOARD_CACHE' = [data |-> << >>, last_updated |-> 0]
    /\ username_from' = NoSource
    /\ board_read' = NoRead
    /\ UNCHANGED << session, resp, creds, store_reachable, store, task_queue,
                    now, outcomes, game_wins, attempted, started_by, saves, threads,
                    store_changed_at >>

(***************************************************************************)
(* Spec: one browser's requests, logged in or not, at the default          *)
(* difficulty, with the store as it started.                               *)
(***************************************************************************)
SpecUsers == { <<"a">> }
SpecDifficulties == { "easy" }

Next ==
    \/ Index
    \/ Login(SpecUsers, FALSE)
    \/ SetDifficulty(SpecDifficulties)
    \/ Start
    \/ Guess(FALSE)
    \/ Stats
    \/ Logout

Spec == Init /\ [][Next]_vars

(***************************************************************************)
(* SpecStore: a logged-in player's games with the store configured, while  *)
(* it comes and goes, the background tasks run and the cache expires.      *)
(***************************************************************************)
NextStore ==
    \/ Login(SpecUsers, FALSE)
    \/ is_authenticated(session) /\ Start
    \/ is_authenticated(session) /\ Guess(TRUE)
    \/ is_authenticated(session) /\ Stats
    \/ RunTask
    \/ StoreFlips
    \/ Tick

\* the process has the store's credentials
InitConfigured == Init /\ creds

SpecStore == InitConfigured /\ [][NextStore]_vars

(***************************************************************************)
(* SpecKeys: a logged-in player's games across a restart of the process.   *)
(***************************************************************************)
NextKeys ==
    \/ Login(SpecUsers, FALSE)
    \/ is_authenticated(session) /\ Start
    \/ is_authenticated(session) /\ Guess(FALSE)
    \/ is_authenticated(session) /\ Index
    \/ Restart

SpecKeys == Init /\ [][NextKeys]_vars

(***************************************************************************)
(* SpecGames: one game of every difficulty, played to its end.             *)
(***************************************************************************)
AllDifficulties == DOMAIN DIFFICULTY_SETTINGS

\* a logged-in player with a game still to record
AtPlay == is_authenticated(session) /\ outcomes < MaxWholeGames

NextGames ==
    \/ ~is_authenticated(session) /\ Login(SpecUsers, FALSE)
    \/ AtPlay /\ SetDifficulty(AllDifficulties)
    \/ AtPlay /\ Start
    \/ AtPlay /\ Guess(TRUE)

SpecGames == Init /\ [][NextGames]_vars

(***************************************************************************)
(* SpecBoard: the leaderboard read while other players' scores land in the *)
(* store, the store comes and goes and the caches age; the store starts    *)
(* empty, with one row, or with more rows than the leaderboard lists.      *)
(***************************************************************************)
\* the username of the i-th player of a full store: p000, p001, ...
PlayerName(i) ==
    << "p", DigitSeq[(i \div 100) + 1], DigitSeq[((i \div 10) % 10) + 1],
       DigitSeq[(i % 10) + 1] >>

\* a store of LEADERBOARD_LIMIT + 1 rows, player i holding 100 * i points
FullStore ==
    [u \in { PlayerName(i) : i \in 0..LEADERBOARD_LIMIT } |->
        LET i == CHOOSE j \in 0..LEADERBOARD_LIMIT : PlayerName(j) = u
        IN  [points |-> 100 * i, total_games |-> i, correct_guesses |-> i]]

BoardStores == { EmptyDict, InitStore, FullStore }

InitBoard == InitWith(BoardStores)

\* seconds the clock moves by between two reads of the leaderboard
BoardTicks == { 1, CACHE_TIMEOUT_SECONDS - 1 }

NextBoard ==
    \/ Leaderboard
    \/ Login(SpecUsers, FALSE)
    \/ OtherPlayerScores
    \/ StoreFlips
    \/ \E seconds \in BoardTicks : TickBy(seconds)

SpecBoard == InitBoard /\ [][NextBoard]_vars

(***************************************************************************)
(* SpecLogin: logins, refused ones among them, by a user with a row in the *)
(* store and by one without, around games.                                 *)
(***************************************************************************)
LoginUsers == { <<"a">>, <<"b">> }

NextLogin ==
    \/ Login(LoginUsers, TRUE)
    \/ Start
    \/ Guess(TRUE)
    \/ Logout

SpecLogin == Init /\ [][NextLogin]_vars

(***************************************************************************)
(* SpecTitles: get_player_title over every score up to MaxTitlePoints.     *)
(* The store holds a's row with that score below the top player's; a logs  *)
(* in and reads the stats, both of which compute the title.                *)
(***************************************************************************)
TitleStores ==
    { [u \in { <<"a">>, <<"b">> } |->
          IF u = <<"a">>
          THEN [points |-> p, total_games |-> p, correct_guesses |-> p \div 3]
          ELSE [points |-> MaxTitlePoints + 1, total_games |-> MaxTitlePoints + 1,
                correct_guesses |-> MaxTitlePoints + 1]] :
      p \in 0..MaxTitlePoints }

InitTitles == InitWith(TitleStores) /\ creds /\ store_reachable

NextTitles ==
    \/ Login(SpecUsers, FALSE)
    \/ Stats

SpecTitles == InitTitles /\ [][NextTitles]_vars

(***************************************************************************)
(* SpecSeal: one game of every difficulty on secrets of every length,      *)
(* sealed by /api/start and unsealed by /api/guess, across a restart of    *)
(* the process that changes the key.                                       *)
(***************************************************************************)
NextSeal ==
    \/ ~is_authenticated(session) /\ Login(SpecUsers, FALSE)
    \/ AtPlay /\ ~Playing(session) /\ SetDifficulty(AllDifficulties)
    \/ AtPlay /\ ~Playing(session) /\ StartDrawing(TRUE)
    \/ AtPlay /\ Guess(TRUE)
    \/ Restart

SpecSeal == Init /\ [][NextSeal]_vars

(***************************************************************************)
(* SpecSync: one username on one session, the store configured and always  *)
(* reachable, every background write succeeding: logins, games and the     *)
(* completions of the writes in any order.                                 *)
(***************************************************************************)
InitSync == Init /\ creds /\ store_reachable

\* a login by the username the session already holds, or by any at first
SameUserLogin ==
    \E u \in LoginUsers :
        /\ Get(session, "username", u) = u
        /\ Login({ u }, FALSE)

NextSync ==
    \/ SameUserLogin
    \/ is_authenticated(session) /\ Start
    \/ is_authenticated(session) /\ Guess(TRUE)
    \/ RunTask

SpecSync == InitSync /\ [][NextSync]_vars

(***************************************************************************)
(* SpecRace: the save_score executions of concurrent requests of the       *)
(* single-file program, each reading and then writing, in any order, while *)
(* the store comes and goes.                                               *)
(***************************************************************************)
NextRace ==
    \/ \E i \in SaveProcs : SaveScoreRead(i, LoginUsers)
    \/ \E i \in SaveProcs : SaveScoreUpsert(i)
    \/ StoreFlips

SpecRace == InitConfigured /\ [][NextRace]_vars

(***************************************************************************)
(* SpecTear: requests that read and refresh the top-player cache, run      *)
(* concurrently, while another player's scores land in the store.          *)
(***************************************************************************)
NextTear ==
    \/ \E i \in ThreadIds : CheckReadUser(i)
    \/ \E i \in ThreadIds : CheckReadPoints(i)
    \/ \E i \in ThreadIds : CheckTest(i)
    \/ \E i \in ThreadIds : BoardBegin(i)
    \/ \E i \in ThreadIds : WriteUser(i)
    \/ \E i \in ThreadIds : WritePoints(i)
    \/ \E i \in ThreadIds : WriteTime(i)
    \/ \E i \in ThreadIds : PublishData(i)
    \/ \E i \in ThreadIds : PublishTime(i)
    \/ OtherPlayerScores

SpecTear == InitSync /\ [][NextTear]_vars

(***************************************************************************)
(* SpecStale: concurrent leaderboard reads, statement by statement, while  *)
(* the clock moves and other players' scores land in the store.            *)
(***************************************************************************)
NextStale ==
    \/ \E i \in ThreadIds : BoardBegin(i)
    \/ \E i \in ThreadIds : WriteUser(i)
    \/ \E i \in ThreadIds : WritePoints(i)
    \/ \E i \in ThreadIds : WriteTime(i)
    \/ \E i \in ThreadIds : PublishData(i)
    \/ \E i \in ThreadIds : PublishTime(i)
    \/ OtherPlayerScores
    \/ \E seconds \in BoardTicks : TickBy(seconds)

SpecStale == InitSync /\ [][NextStale]_vars

(***************************************************************************)
(* Guess_It.py: the single-file application.  Its handlers work on the     *)
(* same session, caches and store; a request is logged in when the session *)
(* holds a username, and an exception that reaches the application's error *)
(* handler is answered 500 with the session saved as it stands.  Where     *)
(* these handlers run the clock `now` counts tenths of a second.           *)
(***************************************************************************)
TenthsPerSecond == 10

\* CACHE_TIMEOUT, in seconds
CACHE_TIMEOUT == 60

\* the 0.3 seconds a guess must leave after the guess before it, in tenths
GuessInterval == 3

\* GuessThrottlesAtInterval: the rate limit of guess refusing a guess exactly
\* GuessInterval after the last one as well
GuessThrottlesAtInterval(s, current_time) ==
    current_time - Get(s, "last_guess_time", 0) <= GuessInterval

\* current_time - last_guess < 0.3
TooFast(s, current_time) ==
    current_time - Get(s, "last_guess_time", 0) < GuessInterval

\* login_required
login_required(c) ==
    [c |-> c, resp |-> [code |-> 401, error |-> "Unauthorized",
                        message |-> "Please login first."]]

\* handle_exception: an exception of a handler, answered 500
handle_exception(c) ==
    [c |-> c, resp |-> [code |-> 500, error |-> "Internal Server Error"]]

\* save_score: the session's counters at once, the store by a background thread
save_score(c, username, points_to_add, won) ==
    LET s1 == Put(c.s, "points", Get(c.s, "points", 0) + points_to_add)
        s2 == Put(s1, "total_games", Get(s1, "total_games", 0) + 1)
        s3 == IF won THEN Put(s2, "correct_guesses", Get(s2, "correct_guesses", 0) + 1)
                     ELSE s2
        o  == [username |-> username, points |-> points_to_add, won |-> won]
    IN  [c EXCEPT !.s = s3, !.rec = Append(@, o), !.out = Append(@, o)]

\* get_title(points)
get_title(points) == TitleFrom(points, Len(TITLES))

\* check_if_the_one(username), `data` being the store's answer to the query
\* for the top row
check_if_the_one(c, username, data) ==
    IF c.cache.username # None
         /\ now - c.cache.last_updated < CACHE_TIMEOUT * TenthsPerSecond
    THEN [c |-> c, val |-> c.cache.username = username]
    ELSE IF ~HasClient \/ ~store_reachable \/ Len(data) = 0
    THEN [c |-> c, val |-> FALSE]
    ELSE [c   |-> [c EXCEPT !.cache.username = data[1].username,
                            !.cache.last_updated = now],
          val |-> data[1].username = username]

\* forfeit_if_active()
forfeit_if_active(c) ==
    IF Get(c.s, "game_ready", FALSE) /\ Has(c.s, "target_token")
    THEN IF Get(c.s, "username", None) # None
         THEN save_score(c, c.s["username"], 0, FALSE)
         ELSE c
    ELSE c

\* GET / of Guess_It.py
index(c) ==
    LET f  == IF Get(c.s, "game_ready", FALSE)
              THEN [forfeit_if_active(c) EXCEPT !.s = clear_game_state(@)]
              ELSE c
        s1 == initialize_session_defaults(f.s)
    IN  [c    |-> [f EXCEPT !.s = s1],
         resp |-> [code |-> 200,
                   user_title |-> IF Get(s1, "username", None) = None THEN NoTitle
                                  ELSE IF Get(s1, "is_the_one", FALSE) THEN "THE ONE"
                                  ELSE get_title(Get(s1, "points", 0))]]

\* POST /api/login of Guess_It.py: the username cut to 12 characters
login(c, request_data, data) ==
    LET given    == Get(request_data, "username", << >>)
        username == SubSeq(given, 1, IF Len(given) < 12 THEN Len(given) ELSE 12)
    IN  IF username = << >>
             \/ \E i \in 1..Len(username) : username[i] \notin Letters \cup Digits
        THEN [c |-> c, resp |-> [code |-> 400, message |-> "Invalid username."]]
        ELSE
        LET s1 == Put(Put(c.s, "username", username), "offline_mode", FALSE)
            db_connected == HasClient /\ store_reachable
            offline == Put(Put(Put(Put(s1, "offline_mode", TRUE), "points", 0),
                               "total_games", 0), "correct_guesses", 0)
        IN  IF ~db_connected
            THEN [c    |-> [c EXCEPT !.s = offline],
                  resp |-> [code |-> 200, success |-> TRUE, points |-> 0,
                            title |-> "Newbie", offline |-> TRUE]]
            ELSE IF username \notin DOMAIN store
            THEN [c    |-> [c EXCEPT !.s = s1],
                  resp |-> [code |-> 200, success |-> TRUE,
                            points |-> Get(s1, "points", 0),
                            title |-> NoTitle, offline |-> FALSE]]
            ELSE LET user == store[username]
                     s2   == Put(Put(Put(s1, "points", user.points),
                                     "total_games", user.total_games),
                                 "correct_guesses", user.correct_guesses)
                     chk  == check_if_the_one([c EXCEPT !.s = s2], username, data)
                 IN  [c    |-> [chk.c EXCEPT !.s = Put(@, "is_the_one", chk.val)],
                      resp |-> [code |-> 200, success |-> TRUE, points |-> user.points,
                                title |-> IF chk.val THEN "THE ONE"
                                          ELSE get_title(user.points),
                                offline |-> FALSE]]

\* POST /api/start of Guess_It.py, target_number being what random.randint draws
guess_it_start_game(c, target_number) ==
    IF Get(c.s, "username", None) = None THEN login_required(c)
    ELSE
    LET f  == forfeit_if_active(c)
        s1 == clear_game_state(f.s)
        settings == DIFFICULTY_SETTINGS[Get(s1, "difficulty", "easy")]
        s2 == Put(s1, "target_token", Encrypt(target_number))
        s3 == Put(Put(Put(Put(s2, "attempts", 0), "game_ready", TRUE),
                      "game_start_time", StartedAt), "guess_history", << >>)
    IN  [c    |-> [f EXCEPT !.s = s3],
         resp |-> [code |-> 200, game_ready |-> TRUE, max_number |-> settings.max_number]]

\* int(data.get('guess')) does not raise
IsNumber(request_data) ==
    Has(request_data, "guess") /\ request_data["guess"].kind = "int"

\* POST /api/guess of Guess_It.py, the request body being a JSON object
guess(c, request_data, data) ==
    IF Get(c.s, "username", None) = None THEN login_required(c)
    ELSE IF ~Get(c.s, "game_ready", FALSE) \/ ~Has(c.s, "target_token")
    THEN [c |-> c, resp |-> [code |-> 400, error |-> "State Error",
                             message |-> "Game not started"]]
    ELSE IF TooFast(c.s, now)
    THEN [c |-> c, resp |-> [code |-> 200, status |-> "warning",
                             message |-> "Slow down! Too fast."]]
    ELSE
    LET c1 == [c EXCEPT !.s = Put(@, "last_guess_time", now)]
    IN  IF ~IsNumber(request_data)
        THEN [c |-> c1, resp |-> [code |-> 400, status |-> "error",
                                  message |-> "Invalid number."]]
        ELSE IF InvalidToken(c1.s["target_token"])
        THEN [c |-> c1, resp |-> [code |-> 400, error |-> "Security Error",
                                  message |-> "Session invalid. Restart game."]]
        ELSE IF ~Has(c1.s, "difficulty") THEN handle_exception(c1)
        ELSE
        LET guess_value == request_data["guess"].val
            correct_num == Decrypt(c1.s["target_token"])
            settings    == DIFFICULTY_SETTINGS[c1.s["difficulty"]]
            history     == Append(Get(c1.s, "guess_history", << >>), guess_value)
            c2 == [c1 EXCEPT !.s = Put(@, "guess_history", history)]
            c3 == [c2 EXCEPT !.s = Put(@, "attempts", @["attempts"] + 1)]
        IN  IF guess_value < 1 \/ guess_value > settings.max_number
            THEN [c |-> c2, resp |-> [code |-> 200, status |-> "warning",
                                      message |-> "Stay between"]]
            ELSE IF guess_value = correct_num
            THEN LET c4  == save_score(c3, c3.s["username"], settings.points, TRUE)
                     chk == IF Get(c4.s, "offline_mode", FALSE)
                            THEN [c |-> c4, val |-> FALSE]
                            ELSE check_if_the_one(c4, c4.s["username"], data)
                     s5  == IF chk.val THEN Put(chk.c.s, "is_the_one", TRUE) ELSE chk.c.s
                 IN  [c    |-> [chk.c EXCEPT !.s = clear_game_state(s5)],
                      resp |-> [code |-> 200, status |-> "win",
                                new_points |-> c4.s["points"],
                                new_title |-> IF chk.val THEN "THE ONE"
                                              ELSE get_title(c4.s["points"])]]
            ELSE IF c3.s["attempts"] >= settings.max_attempts
            THEN LET c4 == save_score(c3, c3.s["username"], 0, FALSE)
                 IN  [c    |-> [c4 EXCEPT !.s = clear_game_state(@)],
                      resp |-> [code |-> 200, status |-> "lose"]]
            ELSE [c    |-> c3,
                  resp |-> [code |-> 200, status |-> "continue",
                            hint |-> IF guess_value < correct_num THEN "Higher"
                                     ELSE "Lower",
                            attempts_left |-> settings.max_attempts - c3.s["attempts"],
                            history |-> history]]

(***************************************************************************)
(* SpecGuessIt: the requests of Guess_It.py around its games, a tenth of a *)
(* second or more apart.                                                   *)
(***************************************************************************)
GuessItIndex == Handled("index", index(Here), FALSE)

GuessItLogin ==
    \E body \in LoginBodies(SpecUsers, FALSE), data \in TopRows :
        Handled("login", login(Here, body, data), FALSE)

GuessItStart ==
    \E n \in RandintSamples(1, DIFFICULTY_SETTINGS[Get(session, "difficulty", "easy")].max_number) :
        Handled("start", guess_it_start_game(Here, n), Get(session, "username", None) # None)

GuessItGuess ==
    \E body \in GuessBodies(FALSE), data \in TopRows :
        Handled("guess", guess(Here, body, data), FALSE)

\* tenths of a second between two requests
GuessTicks == { 1, GuessInterval - 1 }

NextGuessIt ==
    \/ GuessItIndex
    \/ GuessItLogin
    \/ GuessItStart
    \/ GuessItGuess
    \/ \E tenths \in GuessTicks : TickBy(tenths)

SpecGuessIt == Init /\ [][NextGuessIt]_vars

(***************************************************************************)
(* What the claims speak of.                                               *)
(***************************************************************************)
Points(s)         == Get(s, "points", 0)
TotalGames(s)     == Get(s, "total_games", 0)
CorrectGuesses(s) == Get(s, "correct_guesses", 0)
Settings(s)       == DIFFICULTY_SETTINGS[Get(s, "difficulty", "easy")]
Status(r)         == Get(r, "status", "none")

\* the outcome a forfeit or a lost game records for username
Loss(username) == [username |-> username, points |-> 0, won |-> FALSE]

\* a logged-in session in a game whose sealed secret the process can unseal
InPlay ==
    /\ is_authenticated(session)
    /\ Playing(session)
    /\ ~InvalidToken(session["target_token"])

\* values of the range that are not the secret
WrongInRange ==
    { 1, 2, Settings(session).max_number - 1, Settings(session).max_number }
        \ { Decrypt(session["target_token"]) }

\* values outside [1, max_number]
OutOfRange == { -1, 0, Settings(session).max_number + 1 }

\* every JSON body of POST /api/guess the model knows
AnyGuessBodies ==
    { [guess |-> IntValue(g)] : g \in { -1, 0, 1, 2, 10, 11 } }
        \cup { [guess |-> TextValue], EmptyDict }

(***************************************************************************)
(* C1  A guess equal to the sealed secret is answered 'win', raises the    *)
(* session's points by the difficulty's points and total_games and         *)
(* correct_guesses by one; and over any sequence of requests, repeated     *)
(* guesses after a failed request included, one game's reward is awarded   *)
(* at most once.  The code does not do this: C1_AwardedTwice is reachable. *)
(***************************************************************************)
C1_WinAwardedOnce ==
    /\ game_wins <= 1
    /\ InPlay =>
         \A data \in TopRows :
            LET r == process_guess(Here, [guess |-> IntValue(Decrypt(session["target_token"]))], data)
            IN  /\ Status(r.resp) = "win"
                /\ Points(r.c.s) = Points(session) + Settings(session).points
                /\ TotalGames(r.c.s) = TotalGames(session) + 1
                /\ CorrectGuesses(r.c.s) = CorrectGuesses(session) + 1

\* one sealed secret's reward is in the session twice: the winning guess was
\* answered 500 after save_score_async, and sent again
C1_AwardedTwice ==
    /\ resp.op = "guess"
    /\ resp.code = 500
    /\ game_wins = 2
    /\ Points(session) = 2 * DIFFICULTY_SETTINGS.easy.points
    /\ CorrectGuesses(session) = 2
    /\ Playing(session)

(***************************************************************************)
(* C2  After any sequence of login, set-difficulty, start, guess, index    *)
(* and logout requests, session['game_ready'] is true if and only if the   *)
(* session contains 'target_token'.                                        *)
(***************************************************************************)
C2_GameReadyIffToken ==
    Get(session, "game_ready", FALSE) <=> Has(session, "target_token")

\* a second login in the middle of a game, after an earlier game was recorded
C2_Witness ==
    /\ resp.op = "login"
    /\ resp.code = 200
    /\ outcomes >= 1
    /\ Get(session, "game_ready", FALSE)
    /\ Has(session, "target_token")

(***************************************************************************)
(* C3  For every difficulty, a wrong guess that brings the attempts used   *)
(* up to max_attempts is answered 'lose', awards no points, raises         *)
(* total_games by one and leaves the session idle.                         *)
(***************************************************************************)
C3_LastWrongGuessLoses ==
    (InPlay /\ LastAttempt) =>
        \A g \in WrongInRange, data \in TopRows :
            LET r == process_guess(Here, [guess |-> IntValue(g)], data)
            IN  /\ r.resp.code = 200
                /\ Status(r.resp) = "lose"
                /\ ~r.c.raised
                /\ r.c.rec = << Loss(session["username"]) >>
                /\ Points(r.c.s) = Points(session)
                /\ TotalGames(r.c.s) = TotalGames(session) + 1
                /\ CorrectGuesses(r.c.s) = CorrectGuesses(session)
                /\ ~Get(r.c.s, "game_ready", FALSE)
                /\ ~Has(r.c.s, "target_token")

\* the fiftieth wrong guess of a game of the longest difficulty was answered
C3_Witness ==
    /\ resp.op = "guess"
    /\ Status(resp) = "lose"
    /\ Get(session, "difficulty", "easy") = "million"
    /\ Len(Get(session, "guess_history", << >>)) = DIFFICULTY_SETTINGS.million.max_attempts
    /\ TotalGames(session) = 1
    /\ ~Playing(session)

(***************************************************************************)
(* C4  While playing, a guess outside [1, max_number] is answered          *)
(* 'warning' and changes nothing in the session: attempts used is not      *)
(* incremented.  The code does not do this.                                *)
(***************************************************************************)
C4_OutOfRangeWarns ==
    InPlay =>
        \A g \in OutOfRange, data \in TopRows :
            LET r == process_guess(Here, [guess |-> IntValue(g)], data)
            IN  /\ Status(r.resp) = "warning"
                /\ r.c.s = session

(***************************************************************************)
(* C5  When the session is playing, each abandoning request (an accepted   *)
(* /api/difficulty, /api/start, GET /, /logout) records exactly one        *)
(* zero-point loss for the session's username, enqueues one store write    *)
(* and ends the old game; when the session is idle none of them records an *)
(* outcome.  The code does not do this when GET / fails.                   *)
(***************************************************************************)
C5_Abandons ==
    \/ resp'.op \in { "start", "index", "logout" }
    \/ resp'.op = "difficulty" /\ resp'.code = 200

C5_OldGameEnded ==
    \/ ~Playing(session')
    \/ /\ resp'.op = "start"
       /\ session'["attempts"] = 0
       /\ session'["guess_history"] = << >>

C5_Step ==
    (is_authenticated(session) /\ C5_Abandons) =>
        IF Playing(session)
        THEN /\ resp'.rec = << Loss(session["username"]) >>
             /\ resp'.out = resp'.rec
             /\ C5_OldGameEnded
             /\ resp'.op # "logout" =>
                   /\ Points(session') = Points(session)
                   /\ TotalGames(session') = TotalGames(session) + 1
                   /\ CorrectGuesses(session') = CorrectGuesses(session)
        ELSE resp'.rec = << >> /\ resp'.out = << >>

C6_InvalidTokenEndsGame ==
    (is_authenticated(session) /\ Playing(session)
        /\ InvalidToken(session["target_token"])) =>
        \A g \in WrongInRange \cup { Decrypt(session["target_token"]) }, data \in TopRows :
            LET r == process_guess(Here, [guess |-> IntValue(g)], data)
            IN  /\ r.resp.code = 400
                /\ Get(r.resp, "error", "none") = "Security Error"
                /\ ~Get(r.c.s, "game_ready", FALSE)
                /\ ~Has(r.c.s, "target_token")

(***************************************************************************)
(* C7  A request answered 'win' or 'lose' leaves the session counters      *)
(* updated by save_score_async (points by the delta, total_games by one,   *)
(* correct_guesses by one if and only if won), with the store reachable or *)
(* not; no background write and no change of the store's availability      *)
(* touches the session; and /api/stats right after reports these counters. *)
(***************************************************************************)
C7_Step ==
    /\ (outcomes' = outcomes + 1 /\ Status(resp') \in { "win", "lose" }) =>
          LET o == resp'.rec[1]
          IN  /\ o.won = (Status(resp') = "win")
              /\ o.points = IF o.won THEN Settings(session).points ELSE 0
              /\ Points(session') = Points(session) + o.points
              /\ TotalGames(session') = TotalGames(session) + 1
              /\ CorrectGuesses(session') = CorrectGuesses(session) + IF o.won THEN 1 ELSE 0
    /\ (attempted' # attempted \/ store_reachable' # store_reachable) =>
          UNCHANGED session
    /\ (Status(resp) \in { "win", "lose" } /\ resp'.op = "stats") =>
          /\ resp'.code = 200
          /\ resp'.points = Points(session)
          /\ resp'.total_games = TotalGames(session)
          /\ resp'.correct_guesses = CorrectGuesses(session)

C7_CountersBeforeResponse == [][C7_Step]_vars

\* /api/stats reports a win whose background write failed, the store still down
C7_Witness ==
    /\ resp.op = "stats"
    /\ resp.code = 200
    /\ resp.points = DIFFICULTY_SETTINGS.easy.points
    /\ resp.total_games = 1
    /\ resp.correct_guesses = 1
    /\ attempted = 1
    /\ ~store_reachable
    /\ <<"a">> \notin DOMAIN store

(***************************************************************************)
(* C8  Each recorded outcome enqueues exactly one background write with    *)
(* the same username, points and won; a write is attempted at most once:   *)
(* run, it leaves the queue whether the store took it or not, and it       *)
(* changes neither the response nor the session.                           *)
(***************************************************************************)
C8_Step ==
    /\ resp'.out = resp'.rec
    /\ IF outcomes' # outcomes THEN task_queue' = task_queue \o resp'.rec
       ELSE IF attempted' # attempted
       THEN \E i \in 1..Len(task_queue) : task_queue' = Without(task_queue, i)
       ELSE UNCHANGED task_queue
    /\ Len(task_queue') + attempted' = outcomes'
    /\ attempted' # attempted =>
          /\ attempted' = attempted + 1
          /\ UNCHANGED << session, resp >>

C8_OneWriteAttemptedOnce == [][C8_Step]_vars

\* a lost game's write was attempted with the store down: it is gone from the
\* queue, the store has no row of it, the response is as it was
C8_Witness ==
    /\ Status(resp) = "lose"
    /\ outcomes = 1
    /\ attempted = 1
    /\ task_queue = << >>
    /\ <<"a">> \notin DOMAIN store
    /\ TotalGames(session) = 1

(***************************************************************************)
(* C9  With no user logged in, /api/difficulty, /api/start, /api/guess and *)
(* /api/stats are each answered 401 and leave the session as it is.  The   *)
(* code redirects instead, and flashes a message into the session.         *)
(***************************************************************************)
C9_Unauthorized401 ==
    ~is_authenticated(session) =>
        \A r \in { set_difficulty_level(Here, body) : body \in DifficultyBodies(AllDifficulties) }
                   \cup { start_game(Here, 1), get_user_stats(Here) }
                   \cup { process_guess(Here, body, << >>) : body \in AnyGuessBodies } :
            /\ r.resp.code = 401
            /\ r.c.s = session

(***************************************************************************)
(* C10  When the session is not playing, /api/guess by a logged-in user is *)
(* answered 400 with the state error 'Game not started' and changes        *)
(* nothing in the session.                                                 *)
(***************************************************************************)
C10_GuessNotStarted ==
    (is_authenticated(session) /\ ~Playing(session)) =>
        \A body \in AnyGuessBodies, data \in TopRows :
            LET r == process_guess(Here, body, data)
            IN  /\ r.resp = [code |-> 400, error |-> "State Error",
                             message |-> "Game not started"]
                /\ r.c.s = session
                /\ r.c.rec = << >>
                /\ ~r.c.raised

\* /api/guess answered so after a game had ended
C10_Witness ==
    /\ resp.op = "guess"
    /\ resp.code = 400
    /\ Get(resp, "message", "none") = "Game not started"
    /\ TotalGames(session) >= 1
    /\ is_authenticated(session)
    /\ ~Playing(session)

(***************************************************************************)
(* C11  While playing, an /api/guess whose payload is not an integer (a    *)
(* text that is no number, or no guess field) is answered 400 'Invalid     *)
(* number.' and consumes nothing: the session is as it was, the game still *)
(* in play.                                                                *)
(***************************************************************************)
NotAnInteger == { [guess |-> TextValue], EmptyDict }

C11_InvalidPayloadConsumesNothing ==
    (is_authenticated(session) /\ Playing(session)) =>
        \A body \in NotAnInteger, data \in TopRows :
            LET r == process_guess(Here, body, data)
            IN  /\ r.resp = [code |-> 400, status |-> "error",
                             message |-> "Invalid number."]
                /\ r.c.s = session
                /\ r.c.rec = << >>
                /\ ~r.c.raised

\* such an answer in the middle of a game: one attempt used before it, and
\* still one
C11_Witness ==
    /\ resp.op = "guess"
    /\ resp.code = 400
    /\ Get(resp, "message", "none") = "Invalid number."
    /\ Playing(session)
    /\ session["attempts"] = 1
    /\ Len(session["guess_history"]) = 1


(***************************************************************************)
(* C12  A leaderboard read less than CACHE_TIMEOUT_SECONDS after the read  *)
(* that fetched the snapshot is answered with that snapshot, without a     *)
(* query, whatever the store holds or answers by then.  The code does not  *)
(* do this when the snapshot fetched was an empty list.                    *)
(***************************************************************************)
Fetched == LEADERBOARD_CACHE.last_updated > 0

C12_SecondCallFromCache ==
    (Fetched /\ now - LEADERBOARD_CACHE.last_updated < CACHE_TIMEOUT_SECONDS) =>
        \A data \in RankedRows :
            LET r == get_leaderboard_data(Here, data)
            IN  /\ r.resp = [code |-> 200, data |-> LEADERBOARD_CACHE.data]
                /\ r.c = Here

(***************************************************************************)
(* C13  With the store out of reach, because no client can be obtained or  *)
(* because the ranked query fails, the leaderboard read answers 200 with   *)
(* the last snapshot fetched if there is one and with {'error': 'db_down'} *)
(* otherwise.  The code does not do this when the query fails.             *)
(***************************************************************************)
C13_NoStoreServesSnapshot ==
    (~HasClient \/ ~store_reachable) =>
        \A data \in RankedRows :
            LET r == get_leaderboard_data(Here, data)
            IN  /\ ~r.c.raised
                /\ r.resp = IF LEADERBOARD_CACHE.data # << >>
                            THEN [code |-> 200, data |-> LEADERBOARD_CACHE.data]
                            ELSE [code |-> 200, error |-> "db_down"]

(***************************************************************************)
(* C14  With the store out of reach, because no client can be created or   *)
(* because the lookup fails, a login still answers success with offline    *)
(* true and 0 points, the stats read that follows reports offline true,    *)
(* and the start, guess and index routes answer without a 5xx.  The code   *)
(* does not do this when a query fails.                                    *)
(***************************************************************************)
StoreDown == ~HasClient \/ ~store_reachable

C14_StoreDownNeverFails ==
    StoreDown =>
        /\ \A body \in LoginBodies(SpecUsers, FALSE), data \in TopRows :
              LET r == handle_login(Here, body, data)
              IN  /\ ~r.c.raised
                  /\ r.resp.code = 200
                  /\ r.resp.success
                  /\ r.resp.offline
                  /\ r.resp.points = 0
                  /\ get_user_stats(r.c).resp.offline
        /\ \A data \in TopRows : index_page(Here, data).resp.code < 500
        /\ \A target_number \in RandintSamples(1, Settings(session).max_number) :
              start_game(Here, target_number).resp.code < 500
        /\ \A body \in AnyGuessBodies, data \in TopRows :
              process_guess(Here, body, data).resp.code < 500

(***************************************************************************)
(* C15  After a successful login as u the session's points, total_games    *)
(* and correct_guesses are those of u's row in the store, or all 0 when    *)
(* there is no such row or the store is out of reach, whatever the session *)
(* held before.  The code does not do this: without a row it resets only   *)
(* the points.                                                             *)
(***************************************************************************)
PersistedRow(username) ==
    IF HasClient /\ store_reachable /\ username \in DOMAIN store
    THEN store[username] ELSE NoRow

C15_LoginMirrorsRow ==
    \A body \in LoginBodies(SpecUsers \cup DOMAIN store, FALSE), data \in TopRows :
        LET r == handle_login(Here, body, data)
        IN  r.resp.code = 200 =>
                /\ Points(r.c.s) = PersistedRow(body.username).points
                /\ TotalGames(r.c.s) = PersistedRow(body.username).total_games
                /\ CorrectGuesses(r.c.s) = PersistedRow(body.username).correct_guesses

WellRanked(entries) ==
    /\ Len(entries) <= LEADERBOARD_LIMIT
    /\ \A i \in 1..Len(entries) :
          /\ i > 1 => entries[i - 1].points >= entries[i].points
          /\ entries[i].title = IF i = 1 THEN "THE ONE"
                                ELSE get_player_title(entries[i].points)
          /\ i > 1 => entries[i].title # "THE ONE"

C17_LeaderboardRanked ==
    \A data \in RankedRows :
        LET r == get_leaderboard_data(Here, data)
        IN  (r.resp.code = 200 /\ Has(r.resp, "data")) => WellRanked(r.resp.data)

\* a response of 100 entries out of a store that holds more
C17_Witness ==
    /\ resp.op = "leaderboard"
    /\ resp.code = 200
    /\ Has(resp, "data")
    /\ Cardinality(DOMAIN store) > LEADERBOARD_LIMIT
    /\ Len(resp.data) = LEADERBOARD_LIMIT
    /\ resp.data[1].title = "THE ONE"
    /\ resp.data[2].title = "Legend"
    /\ resp.data[LEADERBOARD_LIMIT].title = "Newbie"

(***************************************************************************)
(* C18  check_if_user_is_the_one(username, points) asks the store only     *)
(* when the top-player cache is empty or older than CACHE_TIMEOUT_SECONDS: *)
(* otherwise nothing of the store, its answer or its failure, shows in the *)
(* call.  What it returns is true exactly when points exceed the cached    *)
(* top score, refreshed if the store was asked, or username is the cached  *)
(* top username.                                                           *)
(***************************************************************************)
TopCacheExpired ==
    \/ TOP_PLAYER_CACHE.username = None
    \/ now - TOP_PLAYER_CACHE.last_updated > CACHE_TIMEOUT_SECONDS

\* what the store may answer, and an answer it does not give in this state
AnswerSamples == TopRows \cup { << >>, << [username |-> <<"z">>, points |-> 999] >> }

\* callers and their points: around the cached and the answered top score
CallerSamples == { <<"a">>, <<"b">>, <<"z">> }

PointSamples(data) ==
    { TOP_PLAYER_CACHE.points + d : d \in { -1, 0, 1 } }
        \cup (IF Len(data) > 0 THEN { data[1].points + d : d \in { -1, 0, 1 } } ELSE { })

C18_TopPlayerCheck ==
    \A data \in AnswerSamples, username \in CallerSamples :
        \A points \in PointSamples(data) :
            LET chk == check_if_user_is_the_one(Here, username, points, data)
            IN  /\ ~TopCacheExpired =>
                      /\ ~chk.c.raised
                      /\ chk.c = Here
                      /\ chk.val = (points > TOP_PLAYER_CACHE.points
                                      \/ username = TOP_PLAYER_CACHE.username)
                /\ ~chk.c.raised =>
                      chk.val = (points > chk.c.cache.points
                                   \/ username = chk.c.cache.username)

\* a win answered 'THE ONE' on the cached top score alone, the cache fresh
C18_Witness ==
    /\ resp.op = "guess"
    /\ Status(resp) = "win"
    /\ resp.new_title = "THE ONE"
    /\ ~TopCacheExpired
    /\ TOP_PLAYER_CACHE.username # session["username"]
    /\ TOP_PLAYER_CACHE.points < Points(session)

(***************************************************************************)
(* C19  get_player_title(points) is the title of the highest threshold     *)
(* that points meets, no title below 100 points, and it never ranks lower  *)
(* as points grow.                                                         *)
(***************************************************************************)
\* the rank of a title: its place in TITLES, 0 for no title
Rank(title) ==
    IF title = NoTitle THEN 0
    ELSE CHOOSE i \in 1..Len(TITLES) : TITLES[i].name = title

Met(points) == { i \in 1..Len(TITLES) : points >= TITLES[i].threshold }

HighestMet(points) ==
    IF Met(points) = { } THEN NoTitle
    ELSE TITLES[CHOOSE i \in Met(points) :
                    \A j \in Met(points) : TITLES[j].threshold <= TITLES[i].threshold].name

\* the scores of this state, and for each the scores it is compared with
ScoresHere == { store[u].points : u \in DOMAIN store } \cup { Points(session) }

Below(points) == { q \in { 0, points \div 2, points - 1 } : q >= 0 }

C19_TitleOfHighestThreshold ==
    /\ \A points \in ScoresHere :
          /\ get_player_title(points) = HighestMet(points)
          /\ points < 100 => get_player_title(points) = NoTitle
          /\ \A q \in Below(points) :
                Rank(get_player_title(q)) <= Rank(get_player_title(points))
    /\ (resp.op \in { "login", "stats" } /\ resp.code = 200) =>
          resp.title = HighestMet(resp.points)

\* the stats of a player who has just reached the highest threshold
C19_Witness ==
    /\ resp.op = "stats"
    /\ resp.code = 200
    /\ resp.points = 10000
    /\ resp.title = "Champion"

(***************************************************************************)
(* C20  For every difficulty d, a logged-in user's /api/difficulty request *)
(* naming d sets the session's difficulty to d and answers with d's        *)
(* max_number: 1000 for hard.                                              *)
(***************************************************************************)
C20_DifficultySet ==
    is_authenticated(session) =>
        \A d \in AllDifficulties :
            LET r == set_difficulty_level(Here, [difficulty |-> d])
            IN  /\ ~r.c.raised
                /\ r.resp.code = 200
                /\ r.resp.max_number = DIFFICULTY_SETTINGS[d].max_number
                /\ d = "hard" => r.resp.max_number = 1000
                /\ Has(r.c.s, "difficulty")
                /\ r.c.s["difficulty"] = d

\* hard chosen while an easy game was being played
C20_Witness ==
    /\ resp.op = "difficulty"
    /\ resp.code = 200
    /\ resp.max_number = 1000
    /\ Get(session, "difficulty", "easy") = "hard"
    /\ Len(resp.rec) = 1

(***************************************************************************)
(* C21  For every difficulty, a logged-in user's /api/start stores a token *)
(* sealed under the current key whose plaintext is an integer from 1 to    *)
(* the max_number of the session's difficulty, and leaves the session      *)
(* playing, with 0 attempts used and an empty guess history.               *)
(***************************************************************************)
C21_StartSealsInRange ==
    is_authenticated(session) =>
        \A target_number \in RandintSamples(1, Settings(session).max_number) :
            LET r == start_game(Here, target_number)
            IN  /\ r.resp.code = 200
                /\ Playing(r.c.s)
                /\ ~InvalidToken(r.c.s["target_token"])
                /\ Decrypt(r.c.s["target_token"]) \in 1..Settings(r.c.s).max_number
                /\ r.c.s["attempts"] = 0
                /\ r.c.s["guess_history"] = << >>

\* a game of the largest range just started on its largest secret
C21_Witness ==
    /\ resp.op = "start"
    /\ resp.code = 200
    /\ Playing(session)
    /\ Get(session, "difficulty", "easy") = "million"
    /\ Decrypt(session["target_token"]) = DIFFICULTY_SETTINGS.million.max_number
    /\ session["attempts"] = 0

(***************************************************************************)
(* C22  For every integer n from 1 to max_number, unsealing under the same *)
(* key the token that sealing n produced yields n; a token sealed under    *)
(* another key, or forged under none, fails with InvalidToken: a guess     *)
(* against it is answered Security Error whatever the number guessed.      *)
(***************************************************************************)
\* the key of a token that no key of the process sealed
ForgedKey == -1

OtherKeys == ((0..MaxRestarts) \cup { ForgedKey }) \ { cipher_key }

C23_AttemptsBelowMax ==
    Playing(session) =>
        /\ Has(session, "attempts")
        /\ 0 <= session["attempts"]
        /\ session["attempts"] < Settings(session).max_attempts

(***************************************************************************)
(* C24  Every outcome recorded for a game, a win, a loss or a forfeit, is  *)
(* credited to the username that was logged in when the game was started.  *)
(* The code does not do this after a login as another user while playing.  *)
(***************************************************************************)
C24_Step ==
    outcomes' > outcomes =>
        \A i \in 1..Len(resp'.rec) : resp'.rec[i].username = started_by

C24_OutcomeToStarter == [][C24_Step]_vars

(***************************************************************************)
(* C25  With one username on one session, the store reachable and every    *)
(* background write succeeding: whenever the user is logged in and no      *)
(* write is pending, the session's points, total_games and correct_guesses *)
(* are those of the username's row in the store, a missing row counting as *)
(* zero.  The code does not keep this across a login made while a write is *)
(* pending.                                                                *)
(***************************************************************************)
RowOf(username) == IF username \in DOMAIN store THEN store[username] ELSE NoRow

C25_SessionMatchesStore ==
    (is_authenticated(session) /\ task_queue = << >>) =>
        /\ Points(session) = RowOf(session["username"]).points
        /\ TotalGames(session) = RowOf(session["username"]).total_games
        /\ CorrectGuesses(session) = RowOf(session["username"]).correct_guesses

(***************************************************************************)
(* C26  save_score of Guess_Number_Game.py is an unlocked read-modify-     *)
(* write: its upsert puts in the store the row it read plus its own delta, *)
(* whatever the row has become since, so the store never holds more than   *)
(* the completed saves add up to and, when two executions for one username *)
(* interleave between the read and the upsert, holds less: an update is    *)
(* lost.                                                                   *)
(***************************************************************************)
InitRow(username) ==
    IF username \in DOMAIN InitStore THEN InitStore[username] ELSE NoRow

\* the executions for username that have written
Completed(username) ==
    { i \in SaveProcs : saves[i].pc = "done" /\ saves[i].wrote
                          /\ saves[i].username = username }

RECURSIVE PointsAdded(_)
PointsAdded(procs) ==
    IF procs = { } THEN 0
    ELSE LET i == CHOOSE j \in procs : TRUE
         IN  saves[i].points_to_add + PointsAdded(procs \ { i })

C26_Step ==
    /\ \A i \in SaveProcs :
          (saves[i].pc = "read" /\ saves'[i].pc = "done" /\ saves'[i].wrote) =>
              /\ store'[saves[i].username] = NewRow(saves[i])
              /\ \A u \in DOMAIN store \ { saves[i].username } : store'[u] = store[u]
    /\ \A u \in DOMAIN store' :
          /\ store'[u].total_games
                <= InitRow(u).total_games + Cardinality(Completed(u)')
          /\ store'[u].points <= InitRow(u).points + PointsAdded(Completed(u))'

C26_LastWriteWins == [][C26_Step]_vars

\* two saves of won games for one username have completed and the row holds
\* one game and fewer points than the two added
C26_LostUpdate ==
    \E u \in LoginUsers :
        /\ Cardinality(Completed(u)) = 2
        /\ \A i \in Completed(u) : saves[i].points_to_add > 0
        /\ RowOf(u).total_games < InitRow(u).total_games + 2
        /\ RowOf(u).points < InitRow(u).points + PointsAdded(Completed(u))

(***************************************************************************)
(* C27  The username and the points that a request takes from the          *)
(* top-player cache come from the same store row, however the requests     *)
(* that refresh the cache interleave.  The code does not ensure this: the  *)
(* cache is read and written one field at a time, without a lock.          *)
(***************************************************************************)
C27_NoTornRead ==
    \A i \in ThreadIds :
        (threads[i].kind = "check" /\ threads[i].pc = "done" /\ ~threads[i].raised) =>
            threads[i].cached_top_points = threads[i].paired_points

(***************************************************************************)
(* C28  While the store has never been reachable, the top-player cache     *)
(* still empty (username None, points 0), no endpoint reports 'THE ONE':   *)
(* the new_title of a win, the title of a login, of /api/stats and of the  *)
(* '/' page are those of get_player_title.  The code does not do this for  *)
(* a user with points.                                                     *)
(***************************************************************************)
\* the title a response reports, under whichever name
ReportedTitle(r) ==
    IF Has(r, "new_title") THEN r.new_title
    ELSE IF Has(r, "user_title") THEN r.user_title
    ELSE Get(r, "title", NoTitle)

TopCacheEmpty == TOP_PLAYER_CACHE.username = None /\ TOP_PLAYER_CACHE.points = 0

C28_NoOneWithoutStore ==
    (StoreDown /\ TopCacheEmpty /\ is_authenticated(session)) =>
        \A data \in TopRows :
            /\ \A body \in AnyGuessBodies \cup GuessBodies(TRUE) :
                  ReportedTitle(process_guess(Here, body, data).resp) # "THE ONE"
            /\ \A body \in LoginBodies(SpecUsers, FALSE) :
                  ReportedTitle(handle_login(Here, body, data).resp) # "THE ONE"
            /\ ReportedTitle(get_user_stats(Here).resp) # "THE ONE"
            /\ ReportedTitle(index_page(Here, data).resp) # "THE ONE"

(***************************************************************************)
(* C29  An /api/difficulty request refused with 400, its difficulty name   *)
(* unknown, leaves the session as it was: the difficulty, the counters and *)
(* any game in progress.  The code does not: it forfeits and clears the    *)
(* game before it looks at the name.                                       *)
(***************************************************************************)
UnknownDifficulties == { "bogus", "EASY", "" }

C29_RefusedDifficultyKeepsSession ==
    is_authenticated(session) =>
        \A d \in UnknownDifficulties :
            LET r == set_difficulty_level(Here, [difficulty |-> d])
            IN  /\ r.resp.code = 400
                /\ Get(r.c.s, "difficulty", "easy") = Get(session, "difficulty", "easy")
                /\ Points(r.c.s) = Points(session)
                /\ TotalGames(r.c.s) = TotalGames(session)
                /\ CorrectGuesses(r.c.s) = CorrectGuesses(session)
                /\ Playing(r.c.s) = Playing(session)
                /\ Playing(session) =>
                      /\ r.c.s["target_token"] = session["target_token"]
                      /\ r.c.s["attempts"] = session["attempts"]
                      /\ r.c.s["guess_history"] = session["guess_history"]
                /\ r.c.rec = << >>

(***************************************************************************)
(* C30: after any sequence of requests the session's difficulty, when      *)
(* present, is one of the five configured names, so the settings lookup of *)
(* /api/start and /api/guess (on session['difficulty'], 'easy' when        *)
(* absent) never meets an unknown name; no /api/difficulty or GET / request *)
(* sent from such a state, with a known name, an unknown one or none,      *)
(* leaves another name behind.                                             *)
(***************************************************************************)
KnownDifficulty(s) ==
    /\ Has(s, "difficulty") => s["difficulty"] \in DOMAIN DIFFICULTY_SETTINGS
    /\ Get(s, "difficulty", "easy") \in DOMAIN DIFFICULTY_SETTINGS

C30_DifficultyAlwaysKnown ==
    /\ KnownDifficulty(session)
    /\ \A d \in AllDifficulties \cup UnknownDifficulties :
           KnownDifficulty(set_difficulty_level(Here, [difficulty |-> d]).c.s)
    /\ KnownDifficulty(set_difficulty_level(Here, EmptyDict).c.s)
    /\ \A data \in TopRows : KnownDifficulty(index_page(Here, data).c.s)

\* the hardest difficulty is still set after a refused /api/difficulty
C30_Witness ==
    /\ resp.op = "difficulty"
    /\ resp.code = 400
    /\ Has(session, "difficulty")
    /\ session["difficulty"] = "million"

(***************************************************************************)
(* C31: a guess equal to the secret, sent as the guess that uses the last  *)
(* attempt of the budget, is answered 'win' with the difficulty's full     *)
(* reward and not 'lose': the game is recorded as won, the points are in   *)
(* the session and in the answer, and the session is idle.  The code does  *)
(* not do this when the title check of the winning guess fails.            *)
(***************************************************************************)
C31_LastAttemptWins ==
    (InPlay /\ LastAttempt) =>
        \A data \in TopRows :
            LET r == process_guess(Here,
                         [guess |-> IntValue(Decrypt(session["target_token"]))], data)
            IN  /\ r.resp.code = 200
                /\ Status(r.resp) = "win"
                /\ r.resp.new_points = Points(session) + Settings(session).points
                /\ Points(r.c.s) = Points(session) + Settings(session).points
                /\ TotalGames(r.c.s) = TotalGames(session) + 1
                /\ CorrectGuesses(r.c.s) = CorrectGuesses(session) + 1
                /\ r.c.rec = << [username |-> session["username"],
                                 points |-> Settings(session).points, won |-> TRUE] >>
                /\ ~Playing(r.c.s)

(***************************************************************************)
(* C32: every evaluated guess of a playing session (an integer that passes *)
(* validation, compared with the unsealed secret) is answered with exactly *)
(* one of 'win', 'lose' or 'continue'; a 'continue' answer leaves the      *)
(* session playing, says 'Higher' exactly when the guess is below the      *)
(* secret and 'Lower' exactly when it is above, and reports attempts_left  *)
(* = max_attempts - attempts used, at least 1.  The code does not do this  *)
(* when the title check of a winning guess fails.                          *)
(***************************************************************************)
EvaluatedGuesses ==
    WrongInRange \cup { Decrypt(session["target_token"]),
                        Settings(session).max_number + 1 }

ContinueAnswer(g, r) ==
    /\ Playing(r.c.s)
    /\ r.c.rec = << >>
    /\ (r.resp.hint = "Higher") <=> (g < Decrypt(session["target_token"]))
    /\ (r.resp.hint = "Lower") <=> (g > Decrypt(session["target_token"]))
    /\ r.resp.attempts_left = Settings(session).max_attempts - r.c.s["attempts"]
    /\ r.c.s["attempts"] = session["attempts"] + 1
    /\ r.resp.attempts_left >= 1

C32_EvaluatedGuessAnswered ==
    InPlay =>
        \A g \in EvaluatedGuesses, data \in TopRows :
            LET r == process_guess(Here, [guess |-> IntValue(g)], data)
            IN  /\ r.resp.code = 200
                /\ Status(r.resp) \in { "win", "lose", "continue" }
                /\ Status(r.resp) = "continue" => ContinueAnswer(g, r)

(***************************************************************************)
(* C33: with the store reachable, every leaderboard response is the        *)
(* store's ranked top 100 as a query read it less than                     *)
(* CACHE_TIMEOUT_SECONDS before the response, at the latest during the     *)
(* request itself; and a request that arrives CACHE_TIMEOUT_SECONDS or     *)
(* more after the last answered query asks the store again and answers     *)
(* with what it reads.  The code does not do this when two refreshes of   *)
(* the snapshot interleave.                                                *)
(***************************************************************************)
\* entries are the usernames of `points_of` with the most points,
\* LEADERBOARD_LIMIT of them at most, by descending points
IsRankingOf(entries, points_of) ==
    LET listed == { entries[i].username : i \in 1..Len(entries) }
    IN  /\ Len(entries) = IF Cardinality(DOMAIN points_of) < LEADERBOARD_LIMIT
                          THEN Cardinality(DOMAIN points_of) ELSE LEADERBOARD_LIMIT
        /\ listed \subseteq DOMAIN points_of
        /\ Cardinality(listed) = Len(entries)
        /\ \A i \in 1..Len(entries) :
              /\ entries[i].points = points_of[entries[i].username]
              /\ i > 1 => entries[i - 1].points >= entries[i].points
              /\ \A u \in DOMAIN points_of \ listed : points_of[u] <= entries[i].points

\* the entries of a response without their titles
Untitled(entries) ==
    [i \in 1..Len(entries) |->
        [username |-> entries[i].username, points |-> entries[i].points]]

\* the table the snapshot was read from was the store's table at some time in
\* the last CACHE_TIMEOUT_SECONDS: it was read then, it is the table still, or
\* the table was last written then
ReadInWindow ==
    \/ now - board_read.at <= CACHE_TIMEOUT_SECONDS
    \/ board_read.rows = RankedColumns(store)
    \/ now - store_changed_at <= CACHE_TIMEOUT_SECONDS

\* the latest time known of an answered ranked query: that of the snapshot's
\* rows or that of its stamp
LastFetch ==
    IF board_read.at > LEADERBOARD_CACHE.last_updated THEN board_read.at
    ELSE LEADERBOARD_CACHE.last_updated

\* the last answered ranked query is CACHE_TIMEOUT_SECONDS old or older
ReadExpired == now - LastFetch >= CACHE_TIMEOUT_SECONDS

C33_LeaderboardAtMostTimeoutOld ==
    (HasClient /\ store_reachable) =>
        \A data \in RankedRows :
            LET r == get_leaderboard_data(Here, data)
            IN  /\ r.resp.code = 200
                /\ Has(r.resp, "data")
                /\ \/ /\ Untitled(r.resp.data) = data
                      /\ IsRankingOf(r.resp.data, RankedColumns(store))
                      /\ r.c.board = [data |-> r.resp.data, last_updated |-> now]
                   \/ /\ ReadInWindow
                      /\ IsRankingOf(r.resp.data, board_read.rows)
                      /\ r.c.board = LEADERBOARD_CACHE
                /\ ReadExpired => Untitled(r.resp.data) = data

(***************************************************************************)
(* C34: whenever a leaderboard read fetches a ranking that is not empty,   *)
(* the top-player cache holds the first row's username and points and the  *)
(* time of the fetch when the read is over; and a check_if_user_is_the_one *)
(* up to CACHE_TIMEOUT_SECONDS after that time decides from that row       *)
(* alone, whatever the store holds or answers by then, or fails to answer. *)
(* The code does not do this when two refreshes of the top-player cache    *)
(* interleave.                                                             *)
(***************************************************************************)
\* the leaderboard read asks the store
LeaderboardFetches ==
    /\ HasClient
    /\ store_reachable
    /\ LEADERBOARD_CACHE.data = << >>
         \/ now - LEADERBOARD_CACHE.last_updated >= CACHE_TIMEOUT_SECONDS

FirstRowCached(row, current_time) ==
    [username |-> row.username, points |-> row.points, last_updated |-> current_time]

\* a request handled in one piece
C34_FetchSetsTopPlayer ==
    LeaderboardFetches =>
        \A data \in RankedRows :
            Len(data) > 0 =>
                get_leaderboard_data(Here, data).c.cache = FirstRowCached(data[1], now)

\* the check, `age` seconds after the fetch of `row`
C34_DecidesFromRow ==
    \A data \in RankedRows :
        Len(data) > 0 =>
            \A age \in 0..CACHE_TIMEOUT_SECONDS, answer \in AnswerSamples,
               username \in CallerSamples \cup { data[1].username },
               points \in { data[1].points - 1, data[1].points, data[1].points + 1 } :
                LET later == [Here EXCEPT !.cache = FirstRowCached(data[1], now - age)]
                    chk   == check_if_user_is_the_one(later, username, points, answer)
                IN  /\ ~chk.c.raised
                    /\ chk.c = later
                    /\ chk.val = (points > data[1].points \/ username = data[1].username)

\* a request handled statement by statement: its last write to the cache
C34_Step ==
    \A i \in ThreadIds :
        (threads[i].kind = "board" /\ threads[i].pc = "write_time"
           /\ threads'[i].pc = "publish_data") =>
            TOP_PLAYER_CACHE' = FirstRowCached(threads[i].top_data, threads[i].current_time)

C34_LeaderboardSyncsTopPlayer ==
    /\ [](C34_FetchSetsTopPlayer /\ C34_DecidesFromRow)
    /\ [][C34_Step]_vars


(***************************************************************************)
(* C35: in Guess_It.py, a guess below 1 or above max_number sent during a  *)
(* game, by a logged-in player and not throttled, is answered 'warning'    *)
(* and leaves the attempts used, the guess history and the game being      *)
(* played as they were.  The code appends the guess to the history before  *)
(* it tests the range.                                                     *)
(***************************************************************************)
\* a guess of Guess_It.py that reaches the evaluation of its number
GuessEvaluated(s) ==
    /\ Get(s, "username", None) # None
    /\ Playing(s)
    /\ ~TooFast(s, now)
    /\ ~InvalidToken(s["target_token"])
    /\ Has(s, "difficulty")

C35_OutOfRangeIsNoOp ==
    GuessEvaluated(session) =>
        \A g \in { -1, 0, DIFFICULTY_SETTINGS[session["difficulty"]].max_number + 1 },
           data \in TopRows :
            LET r == guess(Here, [guess |-> IntValue(g)], data)
            IN  /\ r.resp.code = 200
                /\ Status(r.resp) = "warning"
                /\ Get(r.c.s, "attempts", 0) = Get(session, "attempts", 0)
                /\ Get(r.c.s, "guess_history", << >>) = Get(session, "guess_history", << >>)
                /\ Playing(r.c.s)
                /\ Get(r.c.s, "target_token", None) = session["target_token"]
                /\ r.c.rec = << >>


(***************************************************************************)
(* C36: in Guess_It.py, a guess sent during a game less than 0.3 seconds   *)
(* after the last guess of the session that passed the rate limit is       *)
(* answered 'warning' and changes nothing: the attempts used, the guess    *)
(* history, the game and the recorded time of the last guess stay as they  *)
(* were, and no outcome is recorded.  A guess 0.3 seconds or more after it *)
(* is handled as a guess with no guess before it is, the time of the last  *)
(* guess becomes the time of this one, and a number of the range is        *)
(* answered 'win', 'lose' or 'continue' and uses an attempt unless it ends *)
(* the game.                                                               *)
(***************************************************************************)
\* tenths of a second since the last guess that passed the rate limit
SinceLastGuess == now - Get(session, "last_guess_time", 0)

\* a logged-in player in a game, with a guess that passed the rate limit
GuessedBefore ==
    /\ Get(session, "username", None) # None
    /\ Playing(session)
    /\ Has(session, "last_guess_time")

C36_Throttled ==
    (GuessedBefore /\ SinceLastGuess < GuessInterval) =>
        \A body \in AnyGuessBodies, data \in TopRows :
            LET r == guess(Here, body, data)
            IN  /\ r.resp.code = 200
                /\ Status(r.resp) = "warning"
                /\ r.c = Here

C36_Processed ==
    (GuessedBefore /\ SinceLastGuess >= GuessInterval) =>
        \A body \in AnyGuessBodies, data \in TopRows :
            LET r     == guess(Here, body, data)
                fresh == [Here EXCEPT !.s = Pop(@, "last_guess_time")]
            IN  /\ r = guess(fresh, body, data)
                /\ Get(r.c.s, "last_guess_time", 0) = now
                /\ (/\ IsNumber(body)
                    /\ body["guess"].val \in 1..Settings(session).max_number
                    /\ Has(session, "difficulty")
                    /\ ~InvalidToken(session["target_token"])) =>
                       /\ Status(r.resp) \in { "win", "lose", "continue" }
                       /\ Status(r.resp) = "continue" =>
                            r.c.s["attempts"] = session["attempts"] + 1
                       /\ Len(Get(r.c.s, "guess_history", << >>))
                            = Len(Get(session, "guess_history", << >>)) + 1

C36_RateLimit == C36_Throttled /\ C36_Processed

\* a guess of a game has just been refused as too fast after a guess that counted
C36_Witness ==
    /\ resp.op = "guess"
    /\ resp.code = 200
    /\ Status(resp) = "warning"
    /\ resp.message = "Slow down! Too fast."
    /\ GuessedBefore
    /\ SinceLastGuess = GuessInterval - 1
    /\ session["attempts"] >= 1
    /\ Len(session["guess_history"]) >= 1

====
